---- MODULE Spec2Model ----
(***************************************************************************)
(* A model of the algorithmic core of chordai: the transposition engine    *)
(* (data-collection/augment_transposition.py), the chord parser and the    *)
(* variation functions of the variation engine                             *)
(* (data-collection/augment_variations.py), the vocabulary builder, codec  *)
(* and dataset splitter (model-training/data_preprocessing.py) and the     *)
(* autoregressive generation loop (model-training/evaluate_model.py with   *)
(* model-training/data_generator.py).                                      *)
(*                                                                         *)
(* A Python str is a sequence of one-character strings: "Bbm" is           *)
(* <<"B", "b", "m">>.  A Python list is a sequence, a dict a function.     *)
(* Python indices are 0-based, sequences here 1-based.                     *)
(***************************************************************************)
EXTENDS Integers, Sequences, FiniteSets, TLC

VARIABLES
    \* transposition engine: one call and its result
    token, semitones, res,
    \* augment_with_transposition: the fan-out loop
    base_progressions, augmented_progressions, progression_id, base_idx, semi_idx, aug_pc,
    \* ChordProgressionPreprocessor: the corpus handed to build_vocabularies and the object's fields
    progressions, chord_to_id, id_to_chord, vocab_size,
    genre_vocab, mood_vocab, key_vocab, scale_type_vocab, built,
    \* ChordProgressionGenerator.generate_progression: one request
    seed_chords, num_chords, current_sequence, generated_chords, frame, current_pos,
    step, gen_pc,
    \* generate_progression, observed: the ids sampled so far, the number of model.predict calls
    sampled, queries,
    \* generate_progression: the metadata arguments and temperature, the four ids computed
    \* from them, the four ids last passed to the model, and what the model predicts
    request, temperature, cond_ids, passed_ids, predictor,
    \* encode_progression / decode_progression / pad_sequence: one call and its result
    codec,
    \* split_dataset: the arguments, the process-global random generator, the last two results
    data, ratios, split_seed, rng, split_res, split_prev, split_calls,
    \* variation engine: the arguments of one call, its result, the strategy behind each variant
    var_op, var_chord, num_variations, var_progression, variation_probability, variations, strategy_of,
    var_progression_after,
    \* augment_with_variations: the copy that grows, the counter, the argument, the metadata
    \* written, and, observed, the position of the base each appended record was built from
    all_progressions, variation_count, variations_per_progression, final_metadata, derived_from

varsT == <<token, semitones, res>>
varsA == <<base_progressions, augmented_progressions, progression_id, base_idx, semi_idx, aug_pc>>
varsV == <<progressions, chord_to_id, id_to_chord, vocab_size,
           genre_vocab, mood_vocab, key_vocab, scale_type_vocab, built>>
varsG == <<seed_chords, num_chords, current_sequence, generated_chords, frame, current_pos,
           step, gen_pc, sampled, queries, request, temperature, cond_ids, passed_ids,
           predictor>>
varsC == <<codec>>
varsS == <<data, ratios, split_seed, rng, split_res, split_prev, split_calls>>
varsR == <<var_op, var_chord, num_variations, var_progression, variation_probability, variations,
          strategy_of, var_progression_after>>
varsW == <<all_progressions, variation_count, variations_per_progression, final_metadata,
           derived_from>>
vars == <<varsT, varsA, varsV, varsG, varsC, varsS, varsR, varsW>>

\* the variable groups an action of one component leaves alone
othersT == <<varsA, varsV, varsG, varsC, varsS, varsR, varsW>>
othersA == <<varsT, varsV, varsG, varsC, varsS, varsR, varsW>>
othersV == <<varsT, varsA, varsG, varsC, varsS, varsR, varsW>>
othersG == <<varsT, varsA, varsV, varsC, varsS, varsR, varsW>>
othersC == <<varsT, varsA, varsG, varsS, varsR, varsW>>
othersS == <<varsT, varsA, varsV, varsG, varsC, varsR, varsW>>
othersR == <<varsT, varsA, varsV, varsG, varsC, varsS, varsW>>

---------------------------------------------------------------------------
(* Bounds of the model *)

\* longest input token (chord, note or key string) of the transposition calls
MaxLen == 3
\* semitone shifts are drawn from -MaxShift .. MaxShift
MaxShift == 12
\* most base progressions in the dataset handed to augment_with_transposition
MaxBase == 2
\* most records in the corpus handed to build_vocabularies
MaxCorpus == 3
\* largest num_chords of a generation request
MaxNumChords == 4
\* seed_chords lists of every content are drawn up to this length
MaxShortSeed == 2
\* the longest seed_chords list is this much longer than the frame
MaxSeedOver == 1

---------------------------------------------------------------------------
(* Python values *)

None == <<"None">>
IndexError == <<"IndexError">>
TypeError == <<"TypeError">>
ValueError == <<"ValueError">>

Raised(v) == v \in {IndexError, TypeError, ValueError}

\* s[i] of a str, i >= 0
At(s, i) == IF i < Len(s) THEN <<s[i + 1]>> ELSE IndexError

\* s[i:] and s[:i] of a str or list, i >= 0
SliceFrom(s, i) == IF i >= Len(s) THEN <<>> ELSE SubSeq(s, i + 1, Len(s))
SliceTo(s, i) == IF i >= Len(s) THEN s ELSE SubSeq(s, 1, i)

\* a + b of two str values
Concat(a, b) ==
    IF Raised(a) THEN a
    ELSE IF Raised(b) THEN b
    ELSE IF a = None \/ b = None THEN TypeError
    ELSE a \o b

\* x in s, for a one-character x and a str s
CharIn(x, s) == \E i \in 1..Len(s) : s[i] = x

\* x in lst, for a list
InList(x, lst) == \E i \in 1..Len(lst) : lst[i] = x

\* lst.index(x), 0-based, for x in lst
IndexOf(x, lst) == (CHOOSE i \in 1..Len(lst) : lst[i] = x /\ \A j \in 1..(i - 1) : lst[j] # x) - 1

---------------------------------------------------------------------------
(* augment_transposition.py: the tables *)

CHROMATIC_SCALE ==
    << <<"C">>, <<"C", "#">>, <<"D">>, <<"D", "#">>, <<"E">>, <<"F">>,
       <<"F", "#">>, <<"G">>, <<"G", "#">>, <<"A">>, <<"A", "#">>, <<"B">> >>

\* ENHARMONIC_MAP.items(), in insertion order: <<key, value>>
ENHARMONIC_MAP ==
    << << <<"C", "#">>, <<"D", "b">> >>, << <<"D", "#">>, <<"E", "b">> >>,
       << <<"F", "#">>, <<"G", "b">> >>, << <<"G", "#">>, <<"A", "b">> >>,
       << <<"A", "#">>, <<"B", "b">> >>,
       << <<"D", "b">>, <<"C", "#">> >>, << <<"E", "b">>, <<"D", "#">> >>,
       << <<"G", "b">>, <<"F", "#">> >>, << <<"A", "b">>, <<"G", "#">> >>,
       << <<"B", "b">>, <<"A", "#">> >> >>

InEnharmonicMap(note) == \E i \in 1..Len(ENHARMONIC_MAP) : ENHARMONIC_MAP[i][1] = note
EnharmonicGet(note) == ENHARMONIC_MAP[CHOOSE i \in 1..Len(ENHARMONIC_MAP) : ENHARMONIC_MAP[i][1] = note][2]

---------------------------------------------------------------------------
(* augment_transposition.py: the functions *)

\* faulty variant: the accidental test of line 30 is left out
parse_chord_no_accidental(chord) ==
    IF Len(chord) = 0 THEN <<None, None>>
    ELSE <<At(chord, 0), SliceFrom(chord, 1)>>

parse_chord(chord) ==
    IF Len(chord) = 0 THEN <<None, None>>
    ELSE IF Len(chord) > 1 /\ At(chord, 1) \in {<<"b">>, <<"#">>}
         THEN <<SliceTo(chord, 2), SliceFrom(chord, 2)>>
         ELSE <<At(chord, 0), SliceFrom(chord, 1)>>

\* the first loop of transpose_note: a key of the map that holds a 'b' is replaced
NormalizeFlat(note) ==
    IF InEnharmonicMap(note) /\ CharIn("b", note) THEN EnharmonicGet(note) ELSE note

\* the second loop: the first item whose value equals the note gives its key
NormalizeByValue(note) ==
    IF ~InList(note, CHROMATIC_SCALE)
          /\ \E i \in 1..Len(ENHARMONIC_MAP) : ENHARMONIC_MAP[i][2] = note
    THEN ENHARMONIC_MAP[CHOOSE i \in 1..Len(ENHARMONIC_MAP) :
                           /\ ENHARMONIC_MAP[i][2] = note
                           /\ \A j \in 1..(i - 1) : ENHARMONIC_MAP[j][2] # note][1]
    ELSE note

\* faulty variant: the new index is not reduced modulo 12
transpose_note_no_wrap(note, s) ==
    LET n2 == NormalizeByValue(NormalizeFlat(note))
    IN  IF ~InList(n2, CHROMATIC_SCALE) THEN n2
        ELSE LET new_index == IndexOf(n2, CHROMATIC_SCALE) + s
             IN  IF new_index >= 0 /\ new_index < 12
                 THEN CHROMATIC_SCALE[new_index + 1] ELSE IndexError

\* faulty variant: flat aliases are not rewritten to sharps before the lookup
transpose_note_keep_flat(note, s) ==
    IF ~InList(note, CHROMATIC_SCALE) THEN note
    ELSE CHROMATIC_SCALE[((IndexOf(note, CHROMATIC_SCALE) + s) % 12) + 1]

transpose_note(note, s) ==
    LET n1 == NormalizeFlat(note)
        n2 == NormalizeByValue(n1)
    IN  IF ~InList(n2, CHROMATIC_SCALE) THEN n2
        ELSE LET current_index == IndexOf(n2, CHROMATIC_SCALE)
                 new_index == (current_index + s) % 12
             IN  CHROMATIC_SCALE[new_index + 1]

\* faulty variant: the test 'root is None' is left out
transpose_chord_unguarded(chord, s) ==
    LET p == parse_chord(chord)
    IN  Concat(transpose_note(p[1], s), p[2])

transpose_chord(chord, s) ==
    LET p == parse_chord(chord)
        root == p[1]
        quality == p[2]
    IN  IF root = None THEN chord
        ELSE Concat(transpose_note(root, s), quality)

\* [transpose_chord(chord, s) for chord in progression]: the list, or the first exception
\* faulty variant: chords without a root are left out of the result
transpose_progression_skip_rootless(progression, s) ==
    LET kept == SelectSeq(progression, LAMBDA chord : parse_chord(chord)[1] # None)
    IN  [raised |-> FALSE, val |-> [i \in 1..Len(kept) |-> transpose_chord(kept[i], s)]]

transpose_progression(progression, s) ==
    LET out == [i \in 1..Len(progression) |-> transpose_chord(progression[i], s)]
    IN  IF \E i \in 1..Len(out) : Raised(out[i])
        THEN [raised |-> TRUE, val |-> <<>>]
        ELSE [raised |-> FALSE, val |-> out]

\* faulty variant: the marker at position 2 (accidental roots) is not looked for
key_split_first_only(key) ==
    IF CharIn("m", key) /\ Len(key) > 1
    THEN IF At(key, 1) = <<"m">> THEN <<At(key, 0), <<"m">> >>
         ELSE <<key, <<>> >>
    ELSE <<key, <<>> >>

\* the root and suffix transpose_key splits a key into
key_split(key) ==
    IF CharIn("m", key) /\ Len(key) > 1
    THEN IF At(key, 1) = <<"m">> THEN <<At(key, 0), <<"m">> >>
         ELSE IF Len(key) > 2 /\ At(key, 2) = <<"m">> THEN <<SliceTo(key, 2), <<"m">> >>
         ELSE <<key, <<>> >>
    ELSE <<key, <<>> >>

transpose_key(key, s) ==
    LET sp == key_split(key)
    IN  Concat(transpose_note(sp[1], s), sp[2])

---------------------------------------------------------------------------
(* augment_variations.py: its own copy of the chord parser *)

variations_parse_chord(chord) ==
    IF Len(chord) = 0 THEN <<None, None>>
    ELSE IF Len(chord) > 1 /\ At(chord, 1) \in {<<"b">>, <<"#">>}
         THEN <<SliceTo(chord, 2), SliceFrom(chord, 2)>>
         ELSE <<At(chord, 0), SliceFrom(chord, 1)>>

---------------------------------------------------------------------------
(* Default values of the variables a specification does not use *)

NoCall == [op |-> "none", arg |-> <<>>, raised |-> FALSE, val |-> <<>>]

IdleT == token = <<>> /\ semitones = 0 /\ res = NoCall

NoMetadata == [total_progressions |-> 0, base_progressions |-> 0, variations_added |-> 0]

IdleW ==
    /\ all_progressions = <<>>
    /\ variation_count = 0
    /\ variations_per_progression = 0
    /\ final_metadata = NoMetadata
    /\ derived_from = <<>>

IdleA ==
    /\ base_progressions = <<>>
    /\ augmented_progressions = <<>>
    /\ progression_id = 1
    /\ base_idx = 0
    /\ semi_idx = 0
    /\ aug_pc = "idle"

IdleV ==
    /\ progressions = <<>>
    /\ chord_to_id = <<>>
    /\ id_to_chord = <<>>
    /\ vocab_size = 0
    /\ genre_vocab = <<>>
    /\ mood_vocab = <<>>
    /\ key_vocab = <<>>
    /\ scale_type_vocab = <<>>
    /\ built = FALSE

NoRequest == [genre |-> <<>>, mood |-> <<>>, key |-> <<>>, scale_type |-> <<>>]

NoIds == [genre_id |-> 0, mood_id |-> 0, key_id |-> 0, scale_id |-> 0]

\* a model about which nothing is known
AnyModel == [concentrated |-> FALSE, peak |-> 0]

IdleG ==
    /\ seed_chords = <<>>
    /\ num_chords = 0
    /\ current_sequence = <<>>
    /\ generated_chords = <<>>
    /\ frame = <<>>
    /\ current_pos = 0
    /\ step = 0
    /\ gen_pc = "idle"
    /\ sampled = <<>>
    /\ queries = 0
    /\ request = NoRequest
    /\ temperature = 1000
    /\ cond_ids = NoIds
    /\ passed_ids = NoIds
    /\ predictor = AnyModel

NoCodec ==
    [op |-> "none", arg |-> <<>>, max_length |-> 0, of_encoding |-> FALSE, source |-> <<>>,
     val |-> <<>>]

IdleC == codec = NoCodec

NoSplit ==
    [called |-> FALSE, raised |-> FALSE, train |-> <<>>, val |-> <<>>, test |-> <<>>,
     rng_before |-> 0, rng |-> 0]

IdleS ==
    /\ data = <<>>
    /\ ratios = <<0, 0, 0>>
    /\ split_seed = 0
    /\ rng = 0
    /\ split_res = NoSplit
    /\ split_prev = NoSplit
    /\ split_calls = 0

IdleR ==
    /\ var_op = "none"
    /\ var_chord = <<>>
    /\ num_variations = 0
    /\ var_progression = <<>>
    /\ var_progression_after = <<>>
    /\ variation_probability = "never"
    /\ variations = <<>>
    /\ strategy_of = <<>>

---------------------------------------------------------------------------
(* The transposition engine: calls of its functions on drawn inputs *)

\* the characters input tokens are made of: two note letters with recognized
\* accidentals (D#, Db, Bb) and an unrecognized one (B#), a letter that is no
\* note (H), both accidentals and the minor marker
Alphabet == {"D", "B", "H", "#", "b", "m"}

Tokens == UNION {[1..k -> Alphabet] : k \in 0..MaxLen}

Shifts == (0 - MaxShift)..MaxShift

\* the chords that may follow the token in a progression handed to transpose_progression
ProgTails == {<<>>, << <<>> >>, << <<"B", "b">> >>, << <<"H", "m">>, <<"D", "#", "m">> >>}

Call(op, arg, val) == [op |-> op, arg |-> arg, raised |-> Raised(val), val |-> val]

InitT ==
    /\ token \in Tokens
    /\ semitones \in Shifts
    /\ res = NoCall
    /\ IdleA /\ IdleV /\ IdleG /\ IdleC /\ IdleS /\ IdleR /\ IdleW

ParseChord ==
    /\ res.op = "none"
    /\ LET p == parse_chord(token)
       IN  res' = [op |-> "parse_chord", arg |-> token,
                   raised |-> Raised(p[1]) \/ Raised(p[2]), val |-> p]
    /\ UNCHANGED <<token, semitones, othersT>>

VariationsParseChord ==
    /\ res.op = "none"
    /\ LET p == variations_parse_chord(token)
       IN  res' = [op |-> "variations_parse_chord", arg |-> token,
                   raised |-> Raised(p[1]) \/ Raised(p[2]), val |-> p]
    /\ UNCHANGED <<token, semitones, othersT>>

TransposeNote ==
    /\ res.op = "none"
    /\ res' = Call("transpose_note", token, transpose_note(token, semitones))
    /\ UNCHANGED <<token, semitones, othersT>>

TransposeChord ==
    /\ res.op = "none"
    /\ res' = Call("transpose_chord", token, transpose_chord(token, semitones))
    /\ UNCHANGED <<token, semitones, othersT>>

\* the inverse shift applied to the result of transpose_chord
TransposeBack ==
    /\ res.op = "transpose_chord"
    /\ ~res.raised
    /\ res' = Call("transpose_back", res.val, transpose_chord(res.val, (0 - semitones) % 12))
    /\ UNCHANGED <<token, semitones, othersT>>

TransposeKey ==
    /\ res.op = "none"
    /\ res' = Call("transpose_key", token, transpose_key(token, semitones))
    /\ UNCHANGED <<token, semitones, othersT>>

TransposeProgression ==
    /\ res.op = "none"
    /\ \E tail \in ProgTails :
          LET progression == <<token>> \o tail
              r == transpose_progression(progression, semitones)
          IN  res' = [op |-> "transpose_progression", arg |-> progression,
                      raised |-> r.raised, val |-> r.val]
    /\ UNCHANGED <<token, semitones, othersT>>

NextT ==
    \/ ParseChord
    \/ VariationsParseChord
    \/ TransposeNote
    \/ TransposeChord
    \/ TransposeBack
    \/ TransposeKey
    \/ TransposeProgression

SpecT == InitT /\ [][NextT]_vars

---------------------------------------------------------------------------
(* Reference notions the properties of the transposition engine are stated with *)

\* the five flat aliases and their sharp spellings
FlatAliases ==
    { << <<"D", "b">>, <<"C", "#">> >>, << <<"E", "b">>, <<"D", "#">> >>,
      << <<"G", "b">>, <<"F", "#">> >>, << <<"A", "b">>, <<"G", "#">> >>,
      << <<"B", "b">>, <<"A", "#">> >> }

SharpNotes == {CHROMATIC_SCALE[i] : i \in 1..Len(CHROMATIC_SCALE)}

IsFlatAlias(n) == \E a \in FlatAliases : a[1] = n

IsRecognized(n) == n \in SharpNotes \/ IsFlatAlias(n)

\* the sharp spelling of a recognized note
Normalize(n) == IF IsFlatAlias(n) THEN (CHOOSE a \in FlatAliases : a[1] = n)[2] ELSE n

\* the scale entry s semitones above the recognized note n
ShiftedNote(n, s) == CHROMATIC_SCALE[((IndexOf(Normalize(n), CHROMATIC_SCALE) + s) % 12) + 1]

\* the root and the quality of a non-empty chord, as section 4.1 of the specification words them
RootOf(c) == IF Len(c) >= 2 /\ c[2] \in {"#", "b"} THEN SubSeq(c, 1, 2) ELSE SubSeq(c, 1, 1)
QualityOf(c) == SubSeq(c, Len(RootOf(c)) + 1, Len(c))

\* a chord with its root rewritten to the sharp spelling
SharpSpelled(c) ==
    IF c # <<>> /\ IsRecognized(RootOf(c)) THEN Normalize(RootOf(c)) \o QualityOf(c) ELSE c

---------------------------------------------------------------------------
(* Properties of the transposition engine, checked under SpecT *)

\* C5: round trip under the inverse shift: transposing a chord by s and then by
\* (-s) mod 12 gives the chord with its root in sharp spelling, and the chord
\* itself when its root is no recognized pitch class.
C5_RoundTrip ==
    res.op = "transpose_back" => (~res.raised /\ res.val = SharpSpelled(token))

\* C6: for a recognized note n and any integer s, transpose_note(n, s) is the
\* scale entry at (index(normalize(n)) + s) mod 12: it is one of the twelve sharp
\* spellings, a shift of 0 gives normalize(n), and shifts that differ by a
\* multiple of 12 give the same note.
C6_TransposeNoteModular ==
    (res.op = "transpose_note" /\ IsRecognized(token)) =>
        /\ ~res.raised
        /\ res.val = ShiftedNote(token, semitones)
        /\ res.val \in SharpNotes
        /\ (semitones = 0 => res.val = Normalize(token))
        /\ \A k \in {0 - 1, 1} : transpose_note(token, semitones + 12 * k) = res.val

C6_Witness ==
    /\ res.op = "transpose_note"
    /\ token = <<"B", "b">>
    /\ semitones = 0 - 1
    /\ res.val = <<"A">>

\* C7: a note that is neither a sharp spelling nor a flat alias is returned
\* unchanged by transpose_note for every shift; a chord whose parsed root is
\* unrecognized, and the empty chord, are returned unchanged by transpose_chord;
\* transpose_note, transpose_chord and transpose_progression raise on no input.
C7_PassThrough ==
    /\ res.op \in {"transpose_note", "transpose_chord", "transpose_back", "transpose_progression"}
          => ~res.raised
    /\ (res.op = "transpose_note" /\ ~IsRecognized(token)) => res.val = token
    /\ (res.op = "transpose_chord" /\ token = <<>>) => res.val = <<>>
    /\ (res.op = "transpose_chord" /\ token # <<>> /\ ~IsRecognized(RootOf(token)))
          => res.val = token
    /\ res.op = "transpose_progression" =>
          /\ Len(res.val) = Len(res.arg)
          /\ \A i \in 1..Len(res.arg) :
                (res.arg[i] = <<>> \/ ~IsRecognized(RootOf(res.arg[i]))) => res.val[i] = res.arg[i]

C7_Witness ==
    /\ res.op = "transpose_chord"
    /\ token = <<"B", "#", "m">>
    /\ semitones = 5
    /\ res.val = <<"B", "#", "m">>

\* C8: parse_chord is total and lossless: (None, None) for the empty string,
\* otherwise a root and a quality whose concatenation is the token, the root being
\* the first two characters exactly when the second character is '#' or 'b' and
\* the first character otherwise; both copies of the parser return the same pair.
C8_ParseChordLossless ==
    res.op \in {"parse_chord", "variations_parse_chord"} =>
        /\ ~res.raised
        /\ token = <<>> => res.val = <<None, None>>
        /\ token # <<>> =>
              /\ res.val[1] \o res.val[2] = token
              /\ Len(res.val[1]) = (IF Len(token) >= 2 /\ token[2] \in {"#", "b"} THEN 2 ELSE 1)
        /\ res.op = "parse_chord" => res.val = variations_parse_chord(token)
        /\ res.op = "variations_parse_chord" => res.val = parse_chord(token)

C8_Witness ==
    /\ res.op = "parse_chord"
    /\ token = <<"D", "b", "m">>
    /\ res.val = << <<"D", "b">>, <<"m">> >>

\* the root and the marker of a key by the three-case rule
KeyRoot(k) ==
    IF Len(k) >= 2 /\ k[2] = "m" THEN SubSeq(k, 1, 1)
    ELSE IF Len(k) >= 3 /\ k[3] = "m" THEN SubSeq(k, 1, 2)
    ELSE k
KeyMarker(k) ==
    IF (Len(k) >= 2 /\ k[2] = "m") \/ (Len(k) >= 3 /\ k[3] = "m") THEN <<"m">> ELSE <<>>

\* C9: transpose_key takes the marker 'm' at position 1 (root: the first
\* character), else at position 2 (root: the first two characters), else none
\* (root: the whole key), transposes the root and reattaches the marker; a key
\* root or root + 'm' with a recognized root gives the shifted root, followed by
\* 'm' exactly when the key ended in it.
C9_TransposeKeyRule ==
    res.op = "transpose_key" =>
        /\ ~res.raised
        /\ res.val = transpose_note(KeyRoot(token), semitones) \o KeyMarker(token)
        /\ \A r \in SharpNotes \cup {a[1] : a \in FlatAliases} :
              /\ token = r => res.val = ShiftedNote(r, semitones)
              /\ token = r \o <<"m">> => res.val = ShiftedNote(r, semitones) \o <<"m">>

C9_Witness ==
    /\ res.op = "transpose_key"
    /\ token = <<"D", "b", "m">>
    /\ semitones = 0 - 3
    /\ res.val = <<"A", "#", "m">>

---------------------------------------------------------------------------
(* augment_with_transposition: every base progression in all 12 keys *)

\* records of the base dataset (generate_base_dataset.py), and one in a flat minor key
BaseRecordPool ==
    { [progression |-> << <<"C">>, <<"G">>, <<"A", "m">>, <<"F">> >>,
       roman_numerals |-> <<"I", "V", "vi", "IV">>,
       key |-> <<"C">>, scale_type |-> "major", genre |-> "pop", mood |-> "uplifting",
       song_name |-> "I-V-vi-IV (Axis of Awesome)"],
      [progression |-> << <<"C">>, <<"B", "b">>, <<"F">> >>,
       roman_numerals |-> <<"I", "bVII", "IV">>,
       key |-> <<"C">>, scale_type |-> "major", genre |-> "rock", mood |-> "powerful",
       song_name |-> "I-bVII-IV (Mixolydian)"],
      [progression |-> << <<"C", "m", "7">>, <<"F", "m", "7">>, <<"B", "b", "7">>,
                          <<"E", "b", "m", "a", "j", "7">> >>,
       roman_numerals |-> <<"ii7", "V7", "I7", "IVmaj7">>,
       key |-> <<"B", "b">>, scale_type |-> "major", genre |-> "jazz", mood |-> "minor-jazz",
       song_name |-> "Minor ii-V-I"],
      [progression |-> << <<"A", "m">>, <<"G">>, <<"F">>, <<"E">> >>,
       roman_numerals |-> <<"i", "VII", "VI", "V">>,
       key |-> <<"A", "m">>, scale_type |-> "minor", genre |-> "rock", mood |-> "dramatic",
       song_name |-> "Minor Rock Progression"],
      [progression |-> << <<"E", "b", "m">>, <<"A", "b", "m">> >>,
       roman_numerals |-> <<"i", "iv">>,
       key |-> <<"E", "b", "m">>, scale_type |-> "minor", genre |-> "jazz", mood |-> "dark",
       song_name |-> ""],
      \* a record of an earlier augmentation, with id and lineage of its own
      [progression |-> << <<"D", "#">>, <<"G", "#">> >>,
       roman_numerals |-> <<"I", "IV">>,
       key |-> <<"D", "#">>, scale_type |-> "major", genre |-> "pop", mood |-> "bright",
       song_name |-> "", id |-> 40, source |-> "transposed",
       transposed_semitones |-> 3, original_key |-> <<"C">>] }

BaseDatasets == UNION {[1..n -> BaseRecordPool] : n \in 0..MaxBase}

InitA ==
    /\ base_progressions \in BaseDatasets
    /\ augmented_progressions = <<>>
    /\ progression_id = 1
    /\ base_idx = 0
    /\ semi_idx = 0
    /\ aug_pc = "loop"
    /\ IdleT /\ IdleV /\ IdleG /\ IdleC /\ IdleS /\ IdleR /\ IdleW

\* the record one pass of the inner loop builds: the deep copy with its
\* progression, key, id and lineage fields set
source_label(s) == IF s = 0 THEN "original" ELSE "transposed"

\* faulty variant: the lineage of a transposed record names the key it was moved to
new_prog_of_lineage_shifted(base_prog, s, id, tp) ==
    LET set == [progression |-> tp,
                key |-> transpose_key(base_prog.key, s),
                id |-> id,
                source |-> source_label(s)]
        lineage == IF s = 0 THEN <<>>
                   ELSE [transposed_semitones |-> s,
                         original_key |-> transpose_key(base_prog.key, s)]
    IN  IF s = 0 THEN set @@ base_prog ELSE (set @@ lineage) @@ base_prog

\* faulty variant: new_prog is the base record itself, not a deep copy of it
base_prog_after_aliased(base_prog, new_prog) == new_prog

\* the base record once a pass has built new_prog: every assignment of the
\* pass goes to copy.deepcopy(base_prog)
base_prog_after(base_prog, new_prog) == base_prog

new_prog_of(base_prog, s, id, tp) ==
    LET set == [progression |-> tp,
                key |-> transpose_key(base_prog.key, s),
                id |-> id,
                source |-> source_label(s)]
        lineage == IF s = 0 THEN <<>>
                   ELSE [transposed_semitones |-> s, original_key |-> base_prog.key]
    IN  IF s = 0 THEN set @@ base_prog ELSE (set @@ lineage) @@ base_prog

\* one pass of the inner loop, for base_progressions[base_idx] and semitones = semi_idx
AugmentStep ==
    /\ aug_pc = "loop"
    /\ base_idx < Len(base_progressions)
    /\ LET base_prog == base_progressions[base_idx + 1]
           tp == transpose_progression(base_prog.progression, semi_idx)
           new_prog == new_prog_of(base_prog, semi_idx, progression_id, tp.val)
       IN  IF tp.raised \/ Raised(new_prog.key)
           THEN /\ aug_pc' = "raised"
                /\ UNCHANGED <<base_progressions, augmented_progressions, progression_id,
                               base_idx, semi_idx>>
           ELSE /\ augmented_progressions' = Append(augmented_progressions, new_prog)
                /\ base_progressions' =
                      [base_progressions EXCEPT ![base_idx + 1] = base_prog_after(base_prog, new_prog)]
                /\ progression_id' = progression_id + 1
                /\ IF semi_idx = 11
                   THEN base_idx' = base_idx + 1 /\ semi_idx' = 0
                   ELSE base_idx' = base_idx /\ semi_idx' = semi_idx + 1
                /\ aug_pc' = "loop"
    /\ UNCHANGED othersA

\* the loops are over: the augmented dataset is written
AugmentDone ==
    /\ aug_pc = "loop"
    /\ base_idx = Len(base_progressions)
    /\ aug_pc' = "done"
    /\ UNCHANGED <<base_progressions, augmented_progressions, progression_id, base_idx,
                   semi_idx, othersA>>

NextA ==
    \/ AugmentStep
    \/ AugmentDone

SpecA == InitA /\ [][NextA]_vars

\* the base progression the i-th augmented record was made from
BaseOf(i) == base_progressions[((i - 1) \div 12) + 1]

\* a key of the form root or root + 'm' with its root in sharp spelling
SharpSpelledKey(k) ==
    IF IsRecognized(KeyRoot(k)) THEN Normalize(KeyRoot(k)) \o KeyMarker(k) ELSE k

\* C4, as claimed: the copy marked 'original' has the chord list and the key of
\* its base progression, flat spellings included.
C4_OriginalCopyIsIdentical ==
    \A i \in 1..Len(augmented_progressions) :
        augmented_progressions[i].source = "original" =>
            /\ augmented_progressions[i].progression = BaseOf(i).progression
            /\ augmented_progressions[i].key = BaseOf(i).key

\* C4, amended: the copy marked 'original' (semitones 0) has the chords and the
\* key of its base progression with every recognized root rewritten to its sharp
\* spelling and every quality and minor marker unchanged; it equals the base chord
\* list and key when no root is a flat alias.
C4_OriginalCopySharpSpelled ==
    \A i \in 1..Len(augmented_progressions) :
        augmented_progressions[i].source = "original" =>
            LET new_prog == augmented_progressions[i]
                base_prog == BaseOf(i)
            IN  /\ Len(new_prog.progression) = Len(base_prog.progression)
                /\ \A j \in 1..Len(base_prog.progression) :
                      /\ new_prog.progression[j] = SharpSpelled(base_prog.progression[j])
                      /\ ~IsFlatAlias(RootOf(base_prog.progression[j]))
                            => new_prog.progression[j] = base_prog.progression[j]
                /\ new_prog.key = SharpSpelledKey(base_prog.key)
                /\ ~IsFlatAlias(KeyRoot(base_prog.key)) => new_prog.key = base_prog.key

C4_Witness ==
    \E i \in 1..Len(augmented_progressions) :
        /\ augmented_progressions[i].source = "original"
        /\ BaseOf(i).key = <<"E", "b", "m">>
        /\ augmented_progressions[i].key = <<"D", "#", "m">>
        /\ augmented_progressions[i].progression = << <<"D", "#", "m">>, <<"G", "#", "m">> >>

---------------------------------------------------------------------------
(* data_preprocessing.py: ChordProgressionPreprocessor.build_vocabularies *)

PAD_TOKEN == <<"<", "P", "A", "D", ">">>
START_TOKEN == <<"<", "S", "T", "A", "R", "T", ">">>
END_TOKEN == <<"<", "E", "N", "D", ">">>
UNK_TOKEN == <<"<", "U", "N", "K", ">">>

\* the characters of the corpus strings, in code-point order: Python compares
\* str values character by character by code point
CodePointOrder ==
    <<"#", "7", "<", ">", "A", "B", "C", "D", "E", "K", "N", "P", "R", "S", "T", "U",
      "a", "b", "c", "d", "i", "j", "k", "l", "m", "n", "o", "p", "r", "s", "z">>

Ord(c) == CHOOSE i \in 1..Len(CodePointOrder) : CodePointOrder[i] = c

\* a < b of two str values
StrLess(a, b) ==
    \E i \in 1..(Len(a) + 1) :
        /\ \A j \in 1..(i - 1) : j <= Len(b) /\ a[j] = b[j]
        /\ \/ i = Len(a) + 1 /\ Len(b) >= i
           \/ i <= Len(a) /\ i <= Len(b) /\ Ord(a[i]) < Ord(b[i])

\* sorted(S) of a set of str values
RECURSIVE sorted(_)
sorted(S) ==
    IF S = {} THEN <<>>
    ELSE LET least == CHOOSE x \in S : \A y \in S \ {x} : StrLess(x, y)
         IN  <<least>> \o sorted(S \ {least})

\* the distinct values of a list in order of first appearance
RECURSIVE first_seen(_, _)
first_seen(values, acc) ==
    IF values = <<>> THEN acc
    ELSE first_seen(Tail(values),
                    IF InList(Head(values), acc) THEN acc ELSE Append(acc, Head(values)))

\* every chord of every progression of the corpus, in corpus order
RECURSIVE all_chords_list(_)
all_chords_list(progs) ==
    IF progs = <<>> THEN <<>> ELSE Head(progs).progression \o all_chords_list(Tail(progs))

\* the sets build_vocabularies collects
all_chords(progs) == {all_chords_list(progs)[i] : i \in 1..Len(all_chords_list(progs))}
all_values(progs, f) == {progs[i][f] : i \in 1..Len(progs)}

\* {x: idx for idx, x in enumerate(lst)}: a later position of a repeated key replaces the earlier
dict_of_enumerate(lst) ==
    [x \in {lst[i] : i \in 1..Len(lst)} |->
        (CHOOSE i \in 1..Len(lst) : lst[i] = x /\ \A j \in (i + 1)..Len(lst) : lst[j] # x) - 1]

\* {idx: x for x, idx in d.items()}
dict_inverted(d) ==
    [idx \in {d[x] : x \in DOMAIN d} |-> CHOOSE x \in DOMAIN d : d[x] = idx]

\* faulty variant: the corpus chords are listed in order of first appearance, not sorted
chord_list_unsorted(progs) ==
    <<PAD_TOKEN, START_TOKEN, END_TOKEN, UNK_TOKEN>> \o first_seen(all_chords_list(progs), <<>>)

chord_list_of(progs) ==
    <<PAD_TOKEN, START_TOKEN, END_TOKEN, UNK_TOKEN>> \o sorted(all_chords(progs))

metadata_vocab_of(progs, f) == dict_of_enumerate(sorted(all_values(progs, f)))

\* records of a corpus: chords and metadata of the dataset, two records with the
\* same content in another order, chords spelled like special tokens, an empty progression
CorpusRecordPool ==
    { [progression |-> << <<"C">>, <<"A", "m">> >>,
       genre |-> <<"p", "o", "p">>, mood |-> <<"s", "a", "d">>,
       key |-> <<"C">>, scale_type |-> <<"m", "a", "j", "o", "r">>],
      [progression |-> << <<"A", "m">>, <<"C">>, <<"A", "m">> >>,
       genre |-> <<"p", "o", "p">>, mood |-> <<"s", "a", "d">>,
       key |-> <<"C">>, scale_type |-> <<"m", "a", "j", "o", "r">>],
      [progression |-> << <<"B", "b">>, <<"C", "#", "m">> >>,
       genre |-> <<"r", "o", "c", "k">>, mood |-> <<"d", "a", "r", "k">>,
       key |-> <<"A", "m">>, scale_type |-> <<"m", "i", "n", "o", "r">>],
      [progression |-> << PAD_TOKEN, <<"C">> >>,
       genre |-> <<"j", "a", "z", "z">>, mood |-> <<"s", "a", "d">>,
       key |-> <<"B", "b">>, scale_type |-> <<"m", "a", "j", "o", "r">>],
      [progression |-> << <<"A", "m", "7">>, END_TOKEN >>,
       genre |-> <<"r", "o", "c", "k">>, mood |-> <<"c", "a", "l", "m">>,
       key |-> <<"A", "m">>, scale_type |-> <<"m", "i", "n", "o", "r">>],
      [progression |-> <<>>,
       genre |-> <<"p", "o", "p">>, mood |-> <<"d", "a", "r", "k">>,
       key |-> <<"C">>, scale_type |-> <<"m", "a", "j", "o", "r">>] }

Corpora == UNION {[1..n -> CorpusRecordPool] : n \in 0..MaxCorpus}

MetadataAxes == {"genre", "mood", "key", "scale_type"}

\* two corpora with the same set of chords and, on every axis, of metadata values
SameContent(p, q) ==
    /\ all_chords(p) = all_chords(q)
    /\ \A f \in MetadataAxes : all_values(p, f) = all_values(q, f)

InitV ==
    /\ progressions \in Corpora
    /\ chord_to_id = <<>>
    /\ id_to_chord = <<>>
    /\ vocab_size = 0
    /\ genre_vocab = <<>>
    /\ mood_vocab = <<>>
    /\ key_vocab = <<>>
    /\ scale_type_vocab = <<>>
    /\ built = FALSE
    /\ IdleT /\ IdleA /\ IdleG /\ IdleC /\ IdleS /\ IdleR /\ IdleW

BuildVocabularies ==
    /\ LET chord_list == chord_list_of(progressions)
       IN  /\ chord_to_id' = dict_of_enumerate(chord_list)
           /\ id_to_chord' = dict_inverted(dict_of_enumerate(chord_list))
           /\ vocab_size' = Len(chord_list)
    /\ genre_vocab' = metadata_vocab_of(progressions, "genre")
    /\ mood_vocab' = metadata_vocab_of(progressions, "mood")
    /\ key_vocab' = metadata_vocab_of(progressions, "key")
    /\ scale_type_vocab' = metadata_vocab_of(progressions, "scale_type")
    /\ built' = TRUE
    /\ UNCHANGED <<progressions, othersV>>

\* a corpus with two records exchanged, a record repeated, dropped or replaced
CorpusVariants(p) ==
    {[p EXCEPT ![i] = p[j], ![j] = p[i]] : i, j \in 1..Len(p)}
    \cup {[p EXCEPT ![i] = r] : i \in 1..Len(p), r \in CorpusRecordPool}
    \cup {SubSeq(p, 1, i - 1) \o SubSeq(p, i + 1, Len(p)) : i \in 1..Len(p)}
    \cup (IF Len(p) < MaxCorpus THEN {Append(p, p[i]) : i \in 1..Len(p)} ELSE {})

\* the caller holds the same chords and metadata values in other records:
\* another record order, other multiplicities
SameContentCorpus ==
    /\ \E q \in CorpusVariants(progressions) :
          /\ q # progressions
          /\ SameContent(q, progressions)
          /\ progressions' = q
    /\ UNCHANGED <<chord_to_id, id_to_chord, vocab_size, genre_vocab, mood_vocab, key_vocab,
                   scale_type_vocab, built, othersV>>

NextV ==
    \/ BuildVocabularies
    \/ SameContentCorpus

SpecV == InitV /\ [][NextV]_vars

---------------------------------------------------------------------------
(* Properties of the vocabularies, checked under SpecV *)

\* C2: after build_vocabularies on any corpus, chords spelled like special
\* tokens included, chord_to_id maps PAD, START, END, UNK to 0, 1, 2, 3.
C2_SpecialTokenIds ==
    built =>
        /\ chord_to_id[PAD_TOKEN] = 0
        /\ chord_to_id[START_TOKEN] = 1
        /\ chord_to_id[END_TOKEN] = 2
        /\ chord_to_id[UNK_TOKEN] = 3

\* a dict that maps its n keys one-to-one onto 0 .. n-1
DenseBijection(d) ==
    /\ \A x, y \in DOMAIN d : d[x] = d[y] => x = y
    /\ {d[x] : x \in DOMAIN d} = 0..(Cardinality(DOMAIN d) - 1)

\* C3: after build_vocabularies on any corpus, chord_to_id and id_to_chord are
\* mutual inverses, the assigned ids are exactly 0 .. vocab_size-1, vocab_size is
\* the number of distinct tokens of chord_to_id, and each metadata vocabulary maps
\* its n values one-to-one onto 0 .. n-1.
C3_VocabularyBijection ==
    built =>
        /\ \A c \in DOMAIN chord_to_id :
              chord_to_id[c] \in DOMAIN id_to_chord /\ id_to_chord[chord_to_id[c]] = c
        /\ \A i \in DOMAIN id_to_chord :
              id_to_chord[i] \in DOMAIN chord_to_id /\ chord_to_id[id_to_chord[i]] = i
        /\ {chord_to_id[c] : c \in DOMAIN chord_to_id} = 0..(vocab_size - 1)
        /\ vocab_size = Cardinality(DOMAIN chord_to_id)
        /\ DenseBijection(genre_vocab)
        /\ DenseBijection(mood_vocab)
        /\ DenseBijection(key_vocab)
        /\ DenseBijection(scale_type_vocab)

\* the number of values of S that sort before x
RankIn(x, S) == Cardinality({y \in S : StrLess(y, x)})

\* the vocabulary of one metadata axis is the sorted enumeration of the values in the corpus
AxisSorted(vocab, f) ==
    /\ DOMAIN vocab = all_values(progressions, f)
    /\ \A x \in DOMAIN vocab : vocab[x] = RankIn(x, all_values(progressions, f))

\* C10: the vocabularies depend only on the set of chords and the sets of
\* metadata values of the corpus, not on record order or multiplicity: the corpus
\* chords have the ids 4, 5, ... in sorted order of their strings and each
\* metadata axis the ids 0, 1, ... in sorted order.  (The vocabularies of a state
\* reached by SameContentCorpus were built from another corpus of the same content.)
C10_VocabularyOrderIndependent ==
    built =>
        /\ DOMAIN chord_to_id =
              all_chords(progressions) \cup {PAD_TOKEN, START_TOKEN, END_TOKEN, UNK_TOKEN}
        /\ \A c \in all_chords(progressions) :
              chord_to_id[c] = 4 + RankIn(c, all_chords(progressions))
        /\ vocab_size = 4 + Cardinality(all_chords(progressions))
        /\ AxisSorted(genre_vocab, "genre")
        /\ AxisSorted(mood_vocab, "mood")
        /\ AxisSorted(key_vocab, "key")
        /\ AxisSorted(scale_type_vocab, "scale_type")

C10_Witness ==
    /\ built
    /\ Len(progressions) = 2
    /\ progressions[1].progression = << <<"B", "b">>, <<"C", "#", "m">> >>
    /\ progressions[2].progression = << <<"A", "m">>, <<"C">>, <<"A", "m">> >>
    /\ chord_to_id[<<"A", "m">>] = 4
    /\ chord_to_id[<<"B", "b">>] = 5
    /\ chord_to_id[<<"C">>] = 6
    /\ chord_to_id[<<"C", "#", "m">>] = 7
    /\ genre_vocab[<<"p", "o", "p">>] = 0
    /\ genre_vocab[<<"r", "o", "c", "k">>] = 1
    /\ key_vocab[<<"A", "m">>] = 0

---------------------------------------------------------------------------
(* evaluate_model.py: ChordProgressionGenerator.generate_progression, with  *)
(* data_generator.py: InferenceGenerator.prepare_input                      *)

\* InferenceGenerator(max_sequence_length=12); the model's frame has as many positions
max_sequence_length == 12

\* d.get(k, default)
DictGet(d, k, default) == IF k \in DOMAIN d THEN d[k] ELSE default

\* np.zeros((1, max_sequence_length)) with chord_sequence[0, :len(seed)] = seed:
\* numpy refuses to store more values than the slice holds
prepare_input(seed) ==
    IF Len(seed) > max_sequence_length
    THEN [raised |-> TRUE, val |-> <<>>]
    ELSE [raised |-> FALSE,
          val |-> [i \in 1..max_sequence_length |-> IF i <= Len(seed) THEN seed[i] ELSE 0]]

\* faulty variant: the genre id is passed in the mood input too
conditioning_inputs_mood_from_genre(ids) ==
    [genre_id |-> ids.genre_id, mood_id |-> ids.genre_id, key_id |-> ids.key_id,
     scale_id |-> ids.scale_id]

\* prepare_input: genre_input, mood_input, key_input, scale_type_input hold the ids given
conditioning_inputs(ids) ==
    [genre_id |-> ids.genre_id, mood_id |-> ids.mood_id, key_id |-> ids.key_id,
     scale_id |-> ids.scale_id]

\* faulty variant: a name the vocabulary does not hold gets the next free id
metadata_ids_fresh_unknown(req) ==
    [genre_id |-> DictGet(genre_vocab, req.genre, Cardinality(DOMAIN genre_vocab)),
     mood_id |-> DictGet(mood_vocab, req.mood, Cardinality(DOMAIN mood_vocab)),
     key_id |-> DictGet(key_vocab, req.key, Cardinality(DOMAIN key_vocab)),
     scale_id |-> DictGet(scale_type_vocab, req.scale_type, Cardinality(DOMAIN scale_type_vocab))]

\* genre_id, mood_id, key_id, scale_id: self.<axis>_to_id.get(name, 0)
metadata_ids(req) ==
    [genre_id |-> DictGet(genre_vocab, req.genre, 0),
     mood_id |-> DictGet(mood_vocab, req.mood, 0),
     key_id |-> DictGet(key_vocab, req.key, 0),
     scale_id |-> DictGet(scale_type_vocab, req.scale_type, 0)]

\* np.exp(x) is 0.0 for x below about -745
ExpUnderflow == 745

SeqMax(xs) == CHOOSE x \in {xs[i] : i \in 1..Len(xs)} : \A i \in 1..Len(xs) : xs[i] <= x

\* _sample_with_temperature(logits, temperature): the ids np.random.choice may return.
\* The values given (probabilities, in thousandths) are divided by the temperature
\* (in thousandths) and passed through a softmax; an id can be drawn unless its
\* exp(logit - max) underflows to zero.
sample_with_temperature(logits, temp) ==
    {i - 1 : i \in {j \in 1..Len(logits) : SeqMax(logits) - logits[j] <= ExpUnderflow * temp}}

\* a distribution with nearly all mass on id c, and one with the mass spread
Concentrated(c, n) == [i \in 1..n |-> IF i = c + 1 THEN 1000 - (n - 1) ELSE 1]

Flat(n) == [i \in 1..n |-> 1000 \div n]

\* predictions[0, current_pos, :] for the model at hand
ModelOutputs(m) ==
    IF m.concentrated
    THEN {Concentrated(m.peak, vocab_size)}
    ELSE {Concentrated(c, vocab_size) : c \in 0..(vocab_size - 1)} \cup {Flat(vocab_size)}

\* the position the distribution is read at: len(sequence) - 1, or the frame's last
\* faulty variant: the position one past the last id of the sequence is read
clamped_pos_past_end(seq) ==
    IF Len(seq) >= max_sequence_length THEN max_sequence_length - 1 ELSE Len(seq)

clamped_pos(seq) ==
    IF Len(seq) - 1 >= max_sequence_length THEN max_sequence_length - 1 ELSE Len(seq) - 1

\* the corpus the persisted vocabulary files were built from
GenCorpus ==
    << [progression |-> << <<"C">>, <<"A", "m">> >>,
        genre |-> <<"p", "o", "p">>, mood |-> <<"s", "a", "d">>,
        key |-> <<"C">>, scale_type |-> <<"m", "a", "j", "o", "r">>],
       [progression |-> << <<"A", "m">>, <<"C">> >>,
        genre |-> <<"r", "o", "c", "k">>, mood |-> <<"c", "a", "l", "m">>,
        key |-> <<"A", "m">>, scale_type |-> <<"m", "i", "n", "o", "r">>] >>

\* chords a request may name as seeds: two of the vocabulary and one that is not in it
SeedChordPool == {<<"C">>, <<"A", "m">>, <<"H">>}

SeedLists ==
    UNION {[1..n -> SeedChordPool] : n \in 0..MaxShortSeed}
    \cup {[i \in 1..n |-> <<"C">>] :
            n \in (max_sequence_length - 1)..(max_sequence_length + MaxSeedOver)}

Name(genre, mood, key, scale_type) ==
    [genre |-> genre, mood |-> mood, key |-> key, scale_type |-> scale_type]

\* requests: all names known, all names first of their axis, none known, one unknown
RequestKnown == Name(<<"r", "o", "c", "k">>, <<"s", "a", "d">>, <<"C">>, <<"m", "i", "n", "o", "r">>)
RequestFirst == Name(<<"p", "o", "p">>, <<"c", "a", "l", "m">>, <<"A", "m">>, <<"m", "a", "j", "o", "r">>)
RequestUnseen == Name(<<"j", "a", "z", "z">>, <<"d", "a", "r", "k">>, <<"H">>, <<"l", "y", "d", "i", "a", "n">>)
RequestMixed == Name(<<"r", "o", "c", "k">>, <<"d", "a", "r", "k">>, <<"C">>, <<"m", "a", "j", "o", "r">>)

MockModel(c) == [concentrated |-> TRUE, peak |-> c]

\* request, model and temperature (in thousandths) of a generation
GenSetups ==
    { [request |-> RequestKnown, predictor |-> AnyModel, temperature |-> 1000],
      [request |-> RequestUnseen, predictor |-> AnyModel, temperature |-> 1000],
      [request |-> RequestMixed, predictor |-> MockModel(4), temperature |-> 1000],
      [request |-> RequestFirst, predictor |-> MockModel(5), temperature |-> 1000],
      [request |-> RequestKnown, predictor |-> MockModel(2), temperature |-> 1000],
      [request |-> RequestKnown, predictor |-> MockModel(5), temperature |-> 1] }

InitG ==
    /\ seed_chords \in SeedLists
    /\ num_chords \in (-1)..MaxNumChords
    /\ \E setup \in GenSetups :
          /\ request = setup.request
          /\ predictor = setup.predictor
          /\ temperature = setup.temperature
    /\ cond_ids = NoIds
    /\ passed_ids = NoIds
    /\ current_sequence = <<>>
    /\ generated_chords = <<>>
    /\ frame = <<>>
    /\ current_pos = 0
    /\ step = 0
    /\ gen_pc = "idle"
    /\ sampled = <<>>
    /\ queries = 0
    /\ progressions = GenCorpus
    /\ chord_to_id = dict_of_enumerate(chord_list_of(GenCorpus))
    /\ id_to_chord = dict_inverted(dict_of_enumerate(chord_list_of(GenCorpus)))
    /\ vocab_size = Len(chord_list_of(GenCorpus))
    /\ genre_vocab = metadata_vocab_of(GenCorpus, "genre")
    /\ mood_vocab = metadata_vocab_of(GenCorpus, "mood")
    /\ key_vocab = metadata_vocab_of(GenCorpus, "key")
    /\ scale_type_vocab = metadata_vocab_of(GenCorpus, "scale_type")
    /\ built = TRUE
    /\ IdleT /\ IdleA /\ IdleC /\ IdleS /\ IdleR /\ IdleW

\* faulty variant: a seed chord the vocabulary does not hold gets the UNK id
initial_sequence_unk_for_unknown(seeds) ==
    IF seeds # <<>>
    THEN [i \in 1..Len(seeds) |-> DictGet(chord_to_id, seeds[i], chord_to_id[UNK_TOKEN])]
    ELSE <<DictGet(chord_to_id, START_TOKEN, 1)>>

\* the initial sequence: the ids of the seed chords, or the START id
initial_sequence(seeds) ==
    IF seeds # <<>>
    THEN [i \in 1..Len(seeds) |-> DictGet(chord_to_id, seeds[i], 0)]
    ELSE <<DictGet(chord_to_id, START_TOKEN, 1)>>

\* faulty variant: only END stops the generation
is_stop_token_end_only(id) == id = 2

\* next_chord_id == 0 or next_chord_id == 2
is_stop_token(id) == id = 0 \/ id = 2

GenStart ==
    /\ built
    /\ gen_pc = "idle"
    /\ cond_ids' = metadata_ids(request)
    /\ current_sequence' = initial_sequence(seed_chords)
    /\ generated_chords' = <<>>
    /\ step' = 0
    /\ sampled' = <<>>
    /\ queries' = 0
    /\ gen_pc' = "loop"
    /\ UNCHANGED <<seed_chords, num_chords, frame, current_pos, request, temperature,
                   passed_ids, predictor, othersG>>

\* one pass of the loop: the frame is built, the model queried, an id sampled
\* from the distribution at the current position and either appended or, when it
\* is PAD (0) or END (2), the loop left and the chords returned
GenStep ==
    /\ gen_pc = "loop"
    /\ step < num_chords
    /\ LET inputs == prepare_input(current_sequence)
       IN  IF inputs.raised
           THEN /\ gen_pc' = "raised"
                /\ UNCHANGED <<current_sequence, generated_chords, frame, current_pos, step,
                               sampled, queries, passed_ids>>
           ELSE /\ frame' = inputs.val
                /\ passed_ids' = conditioning_inputs(cond_ids)
                /\ queries' = queries + 1
                /\ current_pos' = clamped_pos(current_sequence)
                /\ \E next_chord_probs \in ModelOutputs(predictor) :
                     \E next_chord_id \in sample_with_temperature(next_chord_probs, temperature) :
                      /\ sampled' = Append(sampled, next_chord_id)
                      /\ IF is_stop_token(next_chord_id)
                         THEN /\ gen_pc' = "done"
                              /\ UNCHANGED <<current_sequence, generated_chords, step>>
                         ELSE /\ current_sequence' = Append(current_sequence, next_chord_id)
                              /\ generated_chords' =
                                    Append(generated_chords, DictGet(id_to_chord, next_chord_id, UNK_TOKEN))
                              /\ step' = step + 1
                              /\ gen_pc' = "loop"
    /\ UNCHANGED <<seed_chords, num_chords, request, temperature, cond_ids, predictor, othersG>>

\* range(num_chords) is exhausted: generated_chords is returned
GenReturn ==
    /\ gen_pc = "loop"
    /\ step >= num_chords
    /\ gen_pc' = "done"
    /\ UNCHANGED <<seed_chords, num_chords, current_sequence, generated_chords, frame,
                   current_pos, step, sampled, queries, request, temperature, cond_ids,
                   passed_ids, predictor, othersG>>

NextG ==
    \/ GenStart
    \/ GenStep
    \/ GenReturn

SpecG == InitG /\ [][NextG]_vars

\* C1: generation never raises: for every seed list (as long as or longer than
\* the frame included), every num_chords >= 0 and every sequence of sampled ids,
\* generate_progression returns a list of chords; a sequence at or past the frame
\* boundary raises nothing in prepare_input.
C1_GenerationNeverRaises == gen_pc # "raised"

---------------------------------------------------------------------------
(* The codec of ChordProgressionPreprocessor: encode_progression,          *)
(* decode_progression and pad_sequence on a built vocabulary               *)

MaxCodecCorpus == 1
MaxPadLength == 4

\* faulty variant: chords that are not in the vocabulary are dropped
encode_progression_skip_unknown(prog) ==
    LET known == SelectSeq(prog, LAMBDA c : c \in DOMAIN chord_to_id)
    IN  [i \in 1..Len(known) |-> chord_to_id[known[i]]]

encode_progression(prog) ==
    [i \in 1..Len(prog) |->
        IF prog[i] \in DOMAIN chord_to_id
        THEN chord_to_id[prog[i]]
        ELSE chord_to_id[UNK_TOKEN]]

\* faulty variant: the chords come out last id first
decode_progression_reversed(encoded) ==
    [i \in 1..Len(encoded) |-> DictGet(id_to_chord, encoded[Len(encoded) + 1 - i], UNK_TOKEN)]

\* faulty variant: an id without an inverse mapping is left out of the result
decode_progression_known_only(encoded) ==
    LET known == SelectSeq(encoded, LAMBDA idx : idx \in DOMAIN id_to_chord)
    IN  [i \in 1..Len(known) |-> id_to_chord[known[i]]]

decode_progression(encoded) ==
    [i \in 1..Len(encoded) |-> DictGet(id_to_chord, encoded[i], UNK_TOKEN)]

\* faulty variant: a sequence longer than max_length is returned whole
pad_sequence_no_truncate(sequence, max_length) ==
    LET pad_id == chord_to_id[PAD_TOKEN]
    IN  IF Len(sequence) < max_length
        THEN sequence \o [i \in 1..(max_length - Len(sequence)) |-> pad_id]
        ELSE sequence

\* pad_sequence with max_length given; sequence[:max_length] of a longer one
pad_sequence(sequence, max_length) ==
    LET pad_id == chord_to_id[PAD_TOKEN]
    IN  IF Len(sequence) > max_length
        THEN SubSeq(sequence, 1, max_length)
        ELSE IF Len(sequence) < max_length
             THEN sequence \o [i \in 1..(max_length - Len(sequence)) |-> pad_id]
             ELSE sequence

\* corpora the vocabulary is built from
CodecCorpora == UNION {[1..n -> CorpusRecordPool] : n \in 0..MaxCodecCorpus}

\* chords a caller encodes: corpus chords, special tokens and a chord of no corpus
CodecChordPool == {<<"C">>, <<"A", "m">>, END_TOKEN, UNK_TOKEN, <<"H">>}

CodecProgressions == UNION {[1..n -> CodecChordPool] : n \in 0..MaxLen}

\* ids a caller decodes or pads: the PAD id, a corpus chord's id, one past
\* small vocabularies, a negative one
CodecIdPool == {0, 4, 7, -1}

CodecIdLists == UNION {[1..n -> CodecIdPool] : n \in 0..MaxLen}

CodecCall(op, arg, val) ==
    [op |-> op, arg |-> arg, max_length |-> 0, of_encoding |-> FALSE, source |-> <<>>,
     val |-> val]

InitC ==
    /\ progressions \in CodecCorpora
    /\ chord_to_id = <<>>
    /\ id_to_chord = <<>>
    /\ vocab_size = 0
    /\ genre_vocab = <<>>
    /\ mood_vocab = <<>>
    /\ key_vocab = <<>>
    /\ scale_type_vocab = <<>>
    /\ built = FALSE
    /\ IdleT /\ IdleA /\ IdleG /\ IdleC /\ IdleS /\ IdleR /\ IdleW

EncodeProgression ==
    /\ built
    /\ codec.op = "none"
    /\ \E prog \in CodecProgressions :
          codec' = CodecCall("encode_progression", prog, encode_progression(prog))
    /\ UNCHANGED <<varsV, othersC>>

\* the ids encode_progression returned are decoded
DecodeEncoded ==
    /\ codec.op = "encode_progression"
    /\ codec' = [CodecCall("decode_progression", codec.val, decode_progression(codec.val))
                    EXCEPT !.of_encoding = TRUE, !.source = codec.arg]
    /\ UNCHANGED <<varsV, othersC>>

\* ids of any origin (a model's output) are decoded
DecodeProgression ==
    /\ built
    /\ codec.op = "none"
    /\ \E encoded \in CodecIdLists :
          codec' = CodecCall("decode_progression", encoded, decode_progression(encoded))
    /\ UNCHANGED <<varsV, othersC>>

PadSequence ==
    /\ built
    /\ codec.op = "none"
    /\ \E sequence \in CodecIdLists, max_length \in 0..MaxPadLength :
          codec' = [CodecCall("pad_sequence", sequence, pad_sequence(sequence, max_length))
                       EXCEPT !.max_length = max_length]
    /\ UNCHANGED <<varsV, othersC>>

\* max_length is None: self.max_sequence_length is used
PadSequenceDefault ==
    /\ built
    /\ codec.op = "none"
    /\ \E sequence \in CodecIdLists :
          codec' = [CodecCall("pad_sequence", sequence, pad_sequence(sequence, max_sequence_length))
                       EXCEPT !.max_length = max_sequence_length]
    /\ UNCHANGED <<varsV, othersC>>

\* preprocess_dataset: every progression is encoded and padded to
\* max_sequence_length and its four metadata values are looked up with
\* .get(value, 0); song_name and source are optional fields of the input
preprocess_item(prog) ==
    [id |-> prog.id,
     progression_encoded |-> pad_sequence(encode_progression(prog.progression),
                                          max_sequence_length),
     progression_original |-> prog.progression,
     progression_length |-> Len(prog.progression),
     roman_numerals |-> prog.roman_numerals,
     genre_encoded |-> DictGet(genre_vocab, prog.genre, 0),
     genre |-> prog.genre,
     mood_encoded |-> DictGet(mood_vocab, prog.mood, 0),
     mood |-> prog.mood,
     key_encoded |-> DictGet(key_vocab, prog.key, 0),
     key |-> prog.key,
     scale_type_encoded |-> DictGet(scale_type_vocab, prog.scale_type, 0),
     scale_type |-> prog.scale_type,
     song_name |-> DictGet(prog, "song_name", <<>>),
     source |-> DictGet(prog, "source", "original")]

preprocess_dataset(dataset) == [i \in 1..Len(dataset) |-> preprocess_item(dataset[i])]

\* records handed to preprocess_dataset: corpus records with an id and roman
\* numerals, one of them with the optional song_name and source fields
DatasetRecordPool ==
    {r @@ [id |-> 7, roman_numerals |-> <<"I", "vi">>] : r \in CorpusRecordPool}
    \cup {[progression |-> << <<"C">>, <<"H">> >>,
           genre |-> <<"r", "o", "c", "k">>, mood |-> <<"c", "a", "l", "m">>,
           key |-> <<"B", "b">>, scale_type |-> <<"m", "i", "n", "o", "r">>,
           id |-> 12, roman_numerals |-> <<"I">>,
           song_name |-> <<"s", "o", "n", "a", "r">>, source |-> "transposed"]}

Datasets ==
    {<<>>} \cup {<<r>> : r \in DatasetRecordPool}
    \cup {<<r, q>> : r \in DatasetRecordPool,
                     q \in {x \in DatasetRecordPool : "song_name" \in DOMAIN x}}

PreprocessDataset ==
    /\ built
    /\ codec.op = "none"
    /\ \E dataset \in Datasets :
          codec' = CodecCall("preprocess_dataset", dataset, preprocess_dataset(dataset))
    /\ UNCHANGED <<varsV, othersC>>

NextC ==
    \/ BuildVocabularies
    \/ EncodeProgression
    \/ DecodeEncoded
    \/ DecodeProgression
    \/ PadSequence
    \/ PadSequenceDefault
    \/ PreprocessDataset

SpecC == InitC /\ [][NextC]_vars

(***************************************************************************)
(* The preprocessor and the generator on one vocabulary: the corpus is     *)
(* scanned, a dataset is preprocessed, and a generator that loaded the     *)
(* vocabularies answers one request.                                       *)
(***************************************************************************)
PipelineCorpora == CodecCorpora \cup {GenCorpus}

PipelineRequests == {RequestKnown, RequestFirst, RequestUnseen, RequestMixed}

InitM ==
    /\ progressions \in PipelineCorpora
    /\ chord_to_id = <<>>
    /\ id_to_chord = <<>>
    /\ vocab_size = 0
    /\ genre_vocab = <<>>
    /\ mood_vocab = <<>>
    /\ key_vocab = <<>>
    /\ scale_type_vocab = <<>>
    /\ built = FALSE
    /\ seed_chords = <<>>
    /\ num_chords \in 0..1
    /\ request \in PipelineRequests
    /\ predictor = AnyModel
    /\ temperature = 1000
    /\ cond_ids = NoIds
    /\ passed_ids = NoIds
    /\ current_sequence = <<>>
    /\ generated_chords = <<>>
    /\ frame = <<>>
    /\ current_pos = 0
    /\ step = 0
    /\ gen_pc = "idle"
    /\ sampled = <<>>
    /\ queries = 0
    /\ IdleT /\ IdleA /\ IdleC /\ IdleS /\ IdleR /\ IdleW

NextM ==
    \/ BuildVocabularies
    \/ PreprocessDataset
    \/ GenStart
    \/ GenStep
    \/ GenReturn

SpecM == InitM /\ [][NextM]_vars

InVocabulary(prog) == \A i \in 1..Len(prog) : prog[i] \in DOMAIN chord_to_id

\* C11: encode/decode round trip: for every progression all of whose chords are
\* in the built chord vocabulary, decode_progression(encode_progression(p)) is p:
\* same length, same order, same strings.
C11_EncodeDecodeRoundTrip ==
    (codec.op = "decode_progression" /\ codec.of_encoding /\ InVocabulary(codec.source))
        => codec.val = codec.source

\* a progression of two different corpus chords and a special token came back
C11_Witness ==
    /\ codec.op = "decode_progression" /\ codec.of_encoding
    /\ InVocabulary(codec.source)
    /\ Len(codec.source) >= 3
    /\ codec.source[1] # codec.source[2]
    /\ \E i \in 1..Len(codec.source) : codec.source[i] = END_TOKEN
    /\ \E i \in 1..Len(codec.source) : codec.source[i] = <<"A", "m">>
    /\ codec.val = codec.source

\* C12: encode_progression returns a list as long as its input whose position i
\* holds chord_to_id[chord_i] when chord_i is in the vocabulary and the UNK id
\* otherwise; an unseen chord raises nothing, and the id produced for it decodes
\* to '<UNK>', not to the original string.
C12_UnknownChordEncodesToUnk ==
    /\ codec.op = "encode_progression" =>
          /\ Len(codec.val) = Len(codec.arg)
          /\ \A i \in 1..Len(codec.arg) :
                codec.val[i] = IF codec.arg[i] \in DOMAIN chord_to_id
                               THEN chord_to_id[codec.arg[i]]
                               ELSE chord_to_id[UNK_TOKEN]
    /\ (codec.op = "decode_progression" /\ codec.of_encoding) =>
          /\ Len(codec.val) = Len(codec.source)
          /\ \A i \in 1..Len(codec.source) :
                codec.source[i] \notin DOMAIN chord_to_id =>
                    /\ codec.arg[i] = chord_to_id[UNK_TOKEN]
                    /\ codec.val[i] = UNK_TOKEN
                    /\ codec.val[i] # codec.source[i]

\* an unseen chord between two known ones was encoded and decoded
C12_Witness ==
    /\ codec.op = "decode_progression" /\ codec.of_encoding
    /\ Len(codec.source) = 3
    /\ codec.source[1] \in DOMAIN chord_to_id
    /\ codec.source[2] \notin DOMAIN chord_to_id
    /\ codec.source[3] \in DOMAIN chord_to_id
    /\ codec.source[3] # UNK_TOKEN
    /\ codec.val[2] = UNK_TOKEN

---------------------------------------------------------------------------
(* split_dataset and the process-global random generator it seeds          *)

MaxSamples == 4
MaxSeed == 2
MaxSplitCalls == 2
\* the random module's generator is a deterministic machine with a hidden state;
\* a small one stands for it
RngStates == 8

\* ratios are counted in millionths: 1.0 is RatioUnit, the tolerance 1e-6 is one
RatioUnit == 1000000
Tolerance == 1

Abs(x) == IF x < 0 THEN 0 - x ELSE x

\* random.seed(seed): the state is a function of the seed alone
rng_seed(s) == (7 * s + 1) % RngStates

\* one draw moves the state on
rng_next(state) == (5 * state + 3) % RngStates

\* _randbelow(n): a value below n, read off the state
randbelow(state, n) == state % n

swap(x, i, j) == [x EXCEPT ![i] = x[j], ![j] = x[i]]

\* random.shuffle(x): for i in reversed(range(1, len(x))): j = randbelow(i + 1);
\* x[i], x[j] = x[j], x[i]  (i is the 0-based index)
RECURSIVE shuffle_from(_, _, _)
shuffle_from(x, i, state) ==
    IF i < 1
    THEN [list |-> x, rng |-> state]
    ELSE shuffle_from(swap(x, i + 1, randbelow(state, i + 1) + 1), i - 1, rng_next(state))

shuffle(x, state) == shuffle_from(x, Len(x) - 1, state)

\* int(n_total * ratio) for a ratio in millionths
IntOfProduct(n_total, ratio) == (n_total * ratio) \div RatioUnit

\* abs(train_ratio + val_ratio + test_ratio - 1.0) < 1e-6
RatiosSumToOne(r) == Abs(r[1] + r[2] + r[3] - RatioUnit) < Tolerance

\* n_train and n_val
split_sizes(n_total, r) == <<IntOfProduct(n_total, r[1]), IntOfProduct(n_total, r[2])>>

\* lst[a:b] for 0 <= a, b
Slice(lst, a, b) == SubSeq(lst, a + 1, IF b > Len(lst) THEN Len(lst) ELSE b)

SplitRaised(state) ==
    [called |-> TRUE, raised |-> TRUE, train |-> <<>>, val |-> <<>>, test |-> <<>>,
     rng_before |-> state, rng |-> state]

\* the slices of the shuffled copy
split_slices(shuffled_data, r) ==
    LET n == split_sizes(Len(shuffled_data), r)
        n_train == n[1]
        n_val == n[2]
    IN  [train |-> Slice(shuffled_data, 0, n_train),
         val |-> Slice(shuffled_data, n_train, n_train + n_val),
         test |-> Slice(shuffled_data, n_train + n_val, Len(shuffled_data))]

\* faulty variant: the generator is reseeded before the ratios are looked at
split_dataset_seed_first(d, r, s, state) ==
    IF ~RatiosSumToOne(r)
    THEN [SplitRaised(state) EXCEPT !.rng = rng_seed(s)]
    ELSE LET sh == shuffle(d, rng_seed(s))
             parts == split_slices(sh.list, r)
         IN  [called |-> TRUE, raised |-> FALSE, train |-> parts.train, val |-> parts.val,
              test |-> parts.test, rng_before |-> state, rng |-> sh.rng]

\* faulty variant: random.seed(seed) is left out
split_dataset_unseeded(d, r, s, state) ==
    IF ~RatiosSumToOne(r)
    THEN SplitRaised(state)
    ELSE LET sh == shuffle(d, state)
             parts == split_slices(sh.list, r)
         IN  [called |-> TRUE, raised |-> FALSE, train |-> parts.train, val |-> parts.val,
              test |-> parts.test, rng_before |-> state, rng |-> sh.rng]

\* faulty variant: the test slice starts one sample early
split_dataset_overlapping(d, r, s, state) ==
    IF ~RatiosSumToOne(r)
    THEN SplitRaised(state)
    ELSE LET sh == shuffle(d, rng_seed(s))
             parts == split_slices(sh.list, r)
             n == split_sizes(Len(d), r)
         IN  [called |-> TRUE, raised |-> FALSE, train |-> parts.train, val |-> parts.val,
              test |-> IF n[1] + n[2] > 0
                       THEN Slice(sh.list, n[1] + n[2] - 1, Len(d))
                       ELSE parts.test,
              rng_before |-> state, rng |-> sh.rng]

\* split_dataset(data, train_ratio, val_ratio, test_ratio, seed) with the generator in
\* state: the assertion, then random.seed, the copy, random.shuffle and the slices
split_dataset(d, r, s, state) ==
    IF ~RatiosSumToOne(r)
    THEN SplitRaised(state)
    ELSE LET sh == shuffle(d, rng_seed(s))
             parts == split_slices(sh.list, r)
         IN  [called |-> TRUE, raised |-> FALSE, train |-> parts.train, val |-> parts.val,
              test |-> parts.test, rng_before |-> state, rng |-> sh.rng]

\* faulty variant: random.shuffle is applied to the list passed in
data_after_split_in_place(d, r, s) ==
    IF ~RatiosSumToOne(r) THEN d ELSE shuffle(d, rng_seed(s)).list

\* the list passed as data once split_dataset has returned or raised:
\* random.shuffle is applied to data.copy() and the slices are new lists
data_after_split(d, r, s) == d

\* sample lists: samples 1..n, and the same with the first sample once more at the end
SampleLists ==
    {[i \in 1..n |-> i] : n \in 0..MaxSamples}
    \cup {[i \in 1..n |-> IF i = n THEN 1 ELSE i] : n \in 2..MaxSamples}

\* ratio triples: the default, other triples of sum 1, triples off by 1e-6 and by more.
\* The triples, and the list lengths they are used with, are ones for which the
\* binary floating-point sum and products of the source fall as the decimal ones do.
RatioTriples ==
    { <<800000, 150000, 50000>>, <<500000, 250000, 250000>>, <<340000, 330000, 330000>>,
      <<1000000, 0, 0>>, <<0, 0, 1000000>>,
      <<800000, 150000, 50001>>, <<800000, 150000, 49998>>,
      <<500000, 250000, 0>>, <<500000, 500000, 500000>> }

InitS ==
    /\ data \in SampleLists
    /\ ratios \in RatioTriples
    /\ split_seed \in 0..MaxSeed
    /\ rng \in 0..(RngStates - 1)
    /\ split_res = NoSplit
    /\ split_prev = NoSplit
    /\ split_calls = 0
    /\ IdleT /\ IdleA /\ IdleV /\ IdleG /\ IdleC /\ IdleR /\ IdleW

SplitDataset ==
    /\ split_calls < MaxSplitCalls
    /\ LET out == split_dataset(data, ratios, split_seed, rng)
       IN  /\ split_res' = out
           /\ rng' = out.rng
    /\ split_prev' = split_res
    /\ split_calls' = split_calls + 1
    /\ data' = data_after_split(data, ratios, split_seed)
    /\ UNCHANGED <<ratios, split_seed, othersS>>

\* any other code of the process draws from the global generator
RandomDraw ==
    /\ rng' = rng_next(rng)
    /\ UNCHANGED <<data, ratios, split_seed, split_res, split_prev, split_calls, othersS>>

NextS ==
    \/ SplitDataset
    \/ RandomDraw

SpecS == InitS /\ [][NextS]_vars

Count(lst, x) == Cardinality({i \in 1..Len(lst) : lst[i] = x})

IsPermutation(a, b) ==
    /\ Len(a) = Len(b)
    /\ \A i \in 1..Len(b) : Count(a, b[i]) = Count(b, b[i])

\* C14: split_dataset partitions its input: train + val + test is a permutation
\* of the input, |train| = floor(N * train_ratio), |val| = floor(N * val_ratio),
\* |test| = N - |train| - |val|; 1000 samples at (0.8, 0.15, 0.05) give 800/150/50.
C14_SplitPartitions ==
    /\ (split_res.called /\ ~split_res.raised) =>
          LET N == Len(data)
          IN  /\ IsPermutation(split_res.train \o split_res.val \o split_res.test, data)
              /\ Len(split_res.train) = (N * ratios[1]) \div RatioUnit
              /\ Len(split_res.val) = (N * ratios[2]) \div RatioUnit
              /\ Len(split_res.test) = N - Len(split_res.train) - Len(split_res.val)
    /\ split_sizes(1000, <<800000, 150000, 50000>>) = <<800, 150>>

\* four samples, one of them twice, split 2/1/1 in another order than given
C14_Witness ==
    /\ split_res.called /\ ~split_res.raised
    /\ Len(data) = 4
    /\ Count(data, 1) = 2
    /\ Len(split_res.train) = 2 /\ Len(split_res.val) = 1 /\ Len(split_res.test) = 1
    /\ split_res.train \o split_res.val \o split_res.test # data

\* C15: two calls with the same sample list, ratios and seed return identical
\* train, val and test lists, whatever the state of the process-global generator
\* before each call and whatever was drawn between them.
C15_SplitDeterministic ==
    (split_res.called /\ split_prev.called /\ ~split_res.raised /\ ~split_prev.raised) =>
        /\ split_res.train = split_prev.train
        /\ split_res.val = split_prev.val
        /\ split_res.test = split_prev.test

\* two calls that found the generator in different states returned the same shuffled split
C15_Witness ==
    /\ split_res.called /\ split_prev.called
    /\ ~split_res.raised /\ ~split_prev.raised
    /\ split_res.rng_before # split_prev.rng_before
    /\ Len(data) >= 3
    /\ split_res.train \o split_res.val \o split_res.test # data
    /\ split_res.train = split_prev.train

\* C16: with |train_ratio + val_ratio + test_ratio - 1| >= 1e-6 split_dataset
\* aborts with an error before any processing: nothing is shuffled, the
\* process-global generator is not reseeded, the input list is untouched and no
\* partition is returned.
C16_BadRatiosAbortFirst ==
    [][(split_calls' = split_calls + 1 /\ Abs(ratios[1] + ratios[2] + ratios[3] - RatioUnit) >= Tolerance)
          => /\ split_res'.raised
             /\ split_res'.train = <<>> /\ split_res'.val = <<>> /\ split_res'.test = <<>>
             /\ rng' = rng
             /\ data' = data]_vars

\* a call with ratios off by exactly 1e-6 was refused, on a list of several samples
C16_Witness ==
    /\ split_res.called /\ split_res.raised
    /\ ratios = <<800000, 150000, 50001>>
    /\ Len(data) >= 3
    /\ rng # rng_seed(split_seed)

---------------------------------------------------------------------------
(* The variation engine: get_chord_variations and                          *)
(* create_progression_variations, for every outcome of the random draws    *)

MaxVariations == 3
MaxProgression == 2

\* the items of the CHORD_VARIATIONS dict, in the order they are written
CHORD_VARIATIONS_ITEMS ==
    << [quality |-> <<>>,
        candidates |-> << <<"m", "a", "j", "7">>, <<"m", "a", "j", "9">>, <<"6">>, <<"a", "d", "d", "9">>, <<"s", "u", "s", "2">>, <<"s", "u", "s", "4">> >>],
       [quality |-> <<"m">>,
        candidates |-> << <<"m", "7">>, <<"m", "9">>, <<"m", "6">>, <<"m", "a", "d", "d", "9">>, <<"m", "s", "u", "s", "2">>, <<"m", "s", "u", "s", "4">> >>],
       [quality |-> <<"7">>,
        candidates |-> << <<"9">>, <<"1", "3">>, <<"7", "s", "u", "s", "4">>, <<"7", "b", "9">>, <<"7", "#", "9">> >>],
       [quality |-> <<"m", "a", "j", "7">>,
        candidates |-> << <<"m", "a", "j", "9">>, <<"m", "a", "j", "1", "3">>, <<"m", "a", "j", "7", "#", "1", "1">> >>],
       [quality |-> <<"m", "7">>,
        candidates |-> << <<"m", "9">>, <<"m", "1", "1">>, <<"m", "1", "3">> >>],
       [quality |-> <<"d", "i", "m">>,
        candidates |-> << <<"d", "i", "m", "7">>, <<"m", "7", "b", "5">> >>],
       [quality |-> <<"a", "u", "g">>,
        candidates |-> << <<"7", "#", "5">>, <<"m", "a", "j", "7", "#", "5">> >>] >>

VariationQualities == {CHORD_VARIATIONS_ITEMS[i].quality : i \in 1..Len(CHORD_VARIATIONS_ITEMS)}

\* CHORD_VARIATIONS[quality]
CHORD_VARIATIONS(quality) ==
    (CHOOSE item \in {CHORD_VARIATIONS_ITEMS[i] : i \in 1..Len(CHORD_VARIATIONS_ITEMS)} :
        item.quality = quality).candidates

Min(a, b) == IF a < b THEN a ELSE b

\* the candidate list get_chord_variations samples from; empty when it samples nothing
available_variations(chord) ==
    LET parsed == variations_parse_chord(chord)
    IN  IF parsed[1] # None /\ parsed[2] \in VariationQualities
        THEN CHORD_VARIATIONS(parsed[2])
        ELSE <<>>

\* random.sample(population, n): the positions it may select, n distinct ones in some order
SampleOutcomes(population, n) ==
    {picks \in [1..n -> 1..Len(population)] :
        \A i, j \in 1..n : i # j => picks[i] # picks[j]}

\* the outcomes of the sample get_chord_variations(chord, num) draws
PicksFor(chord, num) ==
    SampleOutcomes(available_variations(chord), Min(num, Len(available_variations(chord))))

\* faulty variant: the candidate selected first is used for every variation
get_chord_variations_repeating(chord, num, picks) ==
    LET parsed == variations_parse_chord(chord)
        root == parsed[1]
        quality == parsed[2]
    IN  IF root = None THEN <<chord>>
        ELSE IF quality \in VariationQualities
             THEN <<chord>> \o
                  [i \in 1..Len(picks) |-> Concat(root, CHORD_VARIATIONS(quality)[picks[1]])]
             ELSE <<chord>>

\* get_chord_variations(chord, num_variations) when random.sample selects the
\* positions picks of the candidate list
get_chord_variations(chord, num, picks) ==
    LET parsed == variations_parse_chord(chord)
        root == parsed[1]
        quality == parsed[2]
    IN  IF root = None THEN <<chord>>
        ELSE IF quality \in VariationQualities
             THEN <<chord>> \o
                  [i \in 1..Len(picks) |-> Concat(root, CHORD_VARIATIONS(quality)[picks[i]])]
             ELSE <<chord>>

\* strategy 1: each chord for which random.random() < variation_probability is
\* replaced by its first variation, when it has one
varied_progression(prog, vary, picks1) ==
    [i \in 1..Len(prog) |->
        IF vary[i]
        THEN LET chord_variations == get_chord_variations(prog[i], 1, picks1[i])
             IN  IF Len(chord_variations) > 1 THEN chord_variations[2] ELSE prog[i]
        ELSE prog[i]]

\* variations.append(varied) with the strategy noted beside it
Appended(acc, varied, strategy) ==
    [variations |-> Append(acc.variations, varied),
     strategy_of |-> Append(acc.strategy_of, strategy)]

strategy_1(prog, vary, picks1) ==
    LET varied == varied_progression(prog, vary, picks1)
        acc == [variations |-> <<>>, strategy_of |-> <<>>]
    IN  IF varied # prog THEN Appended(acc, varied, 1) ELSE acc

strategy_2(acc, prog, pick2) ==
    IF Len(prog) > 0
    THEN LET first_variations == get_chord_variations(prog[1], 1, pick2)
         IN  IF Len(first_variations) > 1
             THEN LET varied == <<first_variations[2]>> \o SubSeq(prog, 2, Len(prog))
                  IN  IF varied # prog /\ ~InList(varied, acc.variations)
                      THEN Appended(acc, varied, 2)
                      ELSE acc
             ELSE acc
    ELSE acc

\* faulty variant: the last-chord variant is appended without looking at the list
strategy_3_no_dedup(acc, prog, pick3) ==
    IF Len(prog) > 0
    THEN LET last_variations == get_chord_variations(prog[Len(prog)], 1, pick3)
         IN  IF Len(last_variations) > 1
             THEN Appended(acc, SubSeq(prog, 1, Len(prog) - 1) \o <<last_variations[2]>>, 3)
             ELSE acc
    ELSE acc

strategy_3(acc, prog, pick3) ==
    IF Len(prog) > 0
    THEN LET last_variations == get_chord_variations(prog[Len(prog)], 1, pick3)
         IN  IF Len(last_variations) > 1
             THEN LET varied == SubSeq(prog, 1, Len(prog) - 1) \o <<last_variations[2]>>
                  IN  IF varied # prog /\ ~InList(varied, acc.variations)
                      THEN Appended(acc, varied, 3)
                      ELSE acc
             ELSE acc
    ELSE acc

\* faulty variant: strategies 2 and 3 assign into the list they were given
progression_after_in_place(prog, vary, pick2, pick3) ==
    IF Len(prog) = 0 THEN prog
    ELSE LET first_variations == get_chord_variations(prog[1], 1, pick2)
             after_2 == IF Len(first_variations) > 1
                        THEN [prog EXCEPT ![1] = first_variations[2]]
                        ELSE prog
             last_variations == get_chord_variations(prog[Len(prog)], 1, pick3)
         IN  IF Len(last_variations) > 1
             THEN [after_2 EXCEPT ![Len(prog)] = last_variations[2]]
             ELSE after_2

\* the list passed as progression once create_progression_variations has
\* returned: every strategy assigns into progression.copy() only
progression_after(prog, vary, pick2, pick3) == prog

\* create_progression_variations(progression, variation_probability) when the
\* draws of random.random() fall as vary says and the samples as the picks say
create_progression_variations(prog, vary, picks1, pick2, pick3) ==
    strategy_3(strategy_2(strategy_1(prog, vary, picks1), prog, pick2), prog, pick3)

\* chords handed to get_chord_variations: every table key, flat and sharp roots,
\* an untabulated quality, a bare accidental, the empty chord
VarChordPool ==
    { <<"C">>, <<"A", "m">>, <<"G", "7">>, <<"F", "m", "a", "j", "7">>, <<"D", "m", "7">>,
      <<"B", "d", "i", "m">>, <<"C", "a", "u", "g">>, <<"B", "b", "m">>, <<"F", "#">>,
      <<"C", "x", "y", "z">>, <<"C", "s", "u", "s", "4">>, <<"b">>, <<>> }

\* chords of the progressions handed to create_progression_variations
VarProgressionChords ==
    { <<"B", "d", "i", "m">>, <<"E", "b", "a", "u", "g">>, <<"F", "m", "a", "j", "7">>,
      <<"C", "x", "y", "z">> }

VarProgressions == UNION {[1..n -> VarProgressionChords] : n \in 0..MaxProgression}

\* variation_probability by what random.random() < variation_probability can be:
\* never (p <= 0), either (0 < p < 1), always (p >= 1)
VariationProbabilities == {"never", "maybe", "always"}

VaryOutcomes(prog, p) ==
    {vary \in [1..Len(prog) -> BOOLEAN] :
        /\ p = "never" => \A i \in 1..Len(prog) : ~vary[i]
        /\ p = "always" => \A i \in 1..Len(prog) : vary[i]}

\* one sample per chord that is varied
Picks1Outcomes(prog, vary) ==
    {picks1 \in [1..Len(prog) -> UNION {PicksFor(c, 1) : c \in VarProgressionChords}] :
        \A i \in 1..Len(prog) :
            picks1[i] \in (IF vary[i] THEN PicksFor(prog[i], 1) ELSE {<<>>})}

InitR ==
    /\ var_op = "none"
    /\ var_chord = <<>>
    /\ num_variations = 0
    /\ var_progression = <<>>
    /\ var_progression_after = <<>>
    /\ variation_probability = "never"
    /\ variations = <<>>
    /\ strategy_of = <<>>
    /\ IdleT /\ IdleA /\ IdleV /\ IdleG /\ IdleC /\ IdleS /\ IdleW

GetChordVariations ==
    /\ var_op = "none"
    /\ \E c \in VarChordPool, num \in 0..MaxVariations :
          \E picks \in PicksFor(c, num) :
              /\ var_chord' = c
              /\ num_variations' = num
              /\ variations' = get_chord_variations(c, num, picks)
    /\ var_op' = "get_chord_variations"
    /\ UNCHANGED <<var_progression, variation_probability, strategy_of, var_progression_after,
                   othersR>>

CreateProgressionVariations ==
    /\ var_op = "none"
    /\ \E prog \in VarProgressions, p \in VariationProbabilities :
          \E vary \in VaryOutcomes(prog, p) :
              \E picks1 \in Picks1Outcomes(prog, vary),
                 pick2 \in (IF Len(prog) > 0 THEN PicksFor(prog[1], 1) ELSE {<<>>}),
                 pick3 \in (IF Len(prog) > 0 THEN PicksFor(prog[Len(prog)], 1) ELSE {<<>>}) :
                  LET out == create_progression_variations(prog, vary, picks1, pick2, pick3)
                  IN  /\ var_progression' = prog
                      /\ var_progression_after' = progression_after(prog, vary, pick2, pick3)
                      /\ variation_probability' = p
                      /\ variations' = out.variations
                      /\ strategy_of' = out.strategy_of
    /\ var_op' = "create_progression_variations"
    /\ UNCHANGED <<var_chord, num_variations, othersR>>

NextR ==
    \/ GetChordVariations
    \/ CreateProgressionVariations

SpecR == InitR /\ [][NextR]_vars

(***************************************************************************)
(* The two transformation engines, one call of either on a progression.    *)
(***************************************************************************)
\* chords of the progressions handed to transpose_progression: flat and sharp
\* roots, a natural root, a sharp root before a quality that opens with a flat
\* sign, a root that is no pitch class, the empty chord
EngineChords ==
    { <<"B", "b", "m", "7">>, <<"F", "#">>, <<"C">>, <<"C", "#", "b", "5">>, <<"H", "m">>, <<>> }

EngineProgressions == UNION {[1..n -> EngineChords] : n \in 0..MaxProgression}

InitE ==
    /\ token = <<>>
    /\ semitones = 0
    /\ res = NoCall
    /\ IdleR
    /\ IdleA /\ IdleV /\ IdleG /\ IdleC /\ IdleS /\ IdleW

\* transpose_progression(progression, semitones): the comprehension reads the
\* list it is given and builds a new one
EngineTransposeProgression ==
    /\ res.op = "none"
    /\ var_op = "none"
    /\ \E progression \in EngineProgressions, s \in Shifts :
          LET r == transpose_progression(progression, s)
          IN  /\ semitones' = s
              /\ res' = [op |-> "transpose_progression", arg |-> progression,
                         raised |-> r.raised, val |-> r.val]
              /\ var_progression' = progression
              /\ var_progression_after' = progression
    /\ UNCHANGED <<token, var_op, var_chord, num_variations, variation_probability,
                   variations, strategy_of, varsA, varsV, varsG, varsC, varsS, varsW>>

EngineCreateProgressionVariations ==
    /\ res.op = "none"
    /\ CreateProgressionVariations

NextE ==
    \/ EngineTransposeProgression
    \/ EngineCreateProgressionVariations

SpecE == InitE /\ [][NextE]_vars

(***************************************************************************)
(* augment_with_variations: the records of a dataset are copied and, for   *)
(* each of them, records for its variations are appended.                  *)
(***************************************************************************)
\* records of the dataset read: output of the transposition stage, an original
\* and a transposed record, a progression without variants, an empty one
VariationRecord(id, progression, source) ==
    [id |-> id, progression |-> progression, source |-> source,
     roman_numerals |-> <<"i", "V">>, key |-> <<"B">>, scale_type |-> "minor",
     genre |-> "jazz", mood |-> "dark", song_name |-> ""]

Transposed(rec, s, original_key) ==
    [transposed_semitones |-> s, original_key |-> original_key] @@ rec

VariationDatasets ==
    { <<>>,
      << VariationRecord(1, << <<"B", "d", "i", "m">>, <<"F", "m", "a", "j", "7">> >>, "original") >>,
      << VariationRecord(1, << <<"B", "d", "i", "m">> >>, "original"),
         Transposed(VariationRecord(2, << <<"E", "b", "a", "u", "g">> >>, "transposed"),
                    4, <<"G">>) >>,
      << VariationRecord(1, << <<"F", "m", "a", "j", "7">> >>, "original"),
         VariationRecord(2, << <<"C", "x", "y", "z">> >>, "original"),
         VariationRecord(3, <<>>, "original"),
         VariationRecord(4, << <<"E", "b", "a", "u", "g">>, <<"B", "d", "i", "m">> >>, "original") >>,
      << VariationRecord(2, << <<"B", "d", "i", "m">> >>, "original"),
         VariationRecord(3, << <<"E", "b", "a", "u", "g">> >>, "original") >> }

InitW ==
    /\ base_progressions \in VariationDatasets
    /\ variations_per_progression \in 0..(MaxVariations + 1)
    /\ augmented_progressions = <<>>
    /\ progression_id = 1
    /\ base_idx = 0
    /\ semi_idx = 0
    /\ aug_pc = "idle"
    /\ all_progressions = <<>>
    /\ variation_count = 0
    /\ final_metadata = NoMetadata
    /\ derived_from = <<>>
    /\ IdleT /\ IdleV /\ IdleG /\ IdleC /\ IdleS /\ IdleR

\* the dataset is loaded and deep-copied, the counters are set
VariationsStart ==
    /\ aug_pc = "idle"
    /\ all_progressions' = base_progressions
    /\ progression_id' = Len(base_progressions) + 1
    /\ variation_count' = 0
    /\ aug_pc' = "loop"
    /\ UNCHANGED <<base_progressions, augmented_progressions, base_idx, semi_idx,
                   variations_per_progression, final_metadata, derived_from,
                   varsT, varsV, varsG, varsC, varsS, varsR>>

\* faulty variant: original_id is the id the new record itself is given
variation_record_own_id(base_prog, variation, id) ==
    [progression |-> variation, id |-> id, source |-> "variation", original_id |-> id]
        @@ base_prog

\* new_prog: the deep copy of base_prog with progression, id, source and original_id set
variation_record(base_prog, variation, id) ==
    [progression |-> variation, id |-> id, source |-> "variation",
     original_id |-> base_prog.id] @@ base_prog

\* one pass of the outer loop: the variations of base_prog's progression are
\* made with variation_probability 0.4 and a record is appended for each of
\* variations[:variations_per_progression]
VariationsStep ==
    /\ aug_pc = "loop"
    /\ base_idx < Len(base_progressions)
    /\ LET base_prog == base_progressions[base_idx + 1]
           prog == base_prog.progression
       IN  \E vary \in VaryOutcomes(prog, "maybe") :
             \E picks1 \in Picks1Outcomes(prog, vary),
                pick2 \in (IF Len(prog) > 0 THEN PicksFor(prog[1], 1) ELSE {<<>>}),
                pick3 \in (IF Len(prog) > 0 THEN PicksFor(prog[Len(prog)], 1) ELSE {<<>>}) :
                 LET made == create_progression_variations(prog, vary, picks1, pick2, pick3).variations
                     kept == SliceTo(made, variations_per_progression)
                     new_progs == [j \in 1..Len(kept) |->
                                      variation_record(base_prog, kept[j], progression_id + j - 1)]
                 IN  /\ all_progressions' = all_progressions \o new_progs
                     /\ progression_id' = progression_id + Len(kept)
                     /\ variation_count' = variation_count + Len(kept)
                     /\ derived_from' = derived_from \o [j \in 1..Len(kept) |-> base_idx + 1]
    /\ base_idx' = base_idx + 1
    /\ UNCHANGED <<base_progressions, augmented_progressions, semi_idx, aug_pc,
                   variations_per_progression, final_metadata,
                   varsT, varsV, varsG, varsC, varsS, varsR>>

\* the loop is over: the final dataset and its metadata are written
VariationsDone ==
    /\ aug_pc = "loop"
    /\ base_idx = Len(base_progressions)
    /\ final_metadata' = [total_progressions |-> Len(all_progressions),
                          base_progressions |-> Len(base_progressions),
                          variations_added |-> variation_count]
    /\ aug_pc' = "done"
    /\ UNCHANGED <<base_progressions, augmented_progressions, progression_id, base_idx,
                   semi_idx, all_progressions, variation_count, variations_per_progression,
                   derived_from, varsT, varsV, varsG, varsC, varsS, varsR>>

NextW ==
    \/ VariationsStart
    \/ VariationsStep
    \/ VariationsDone

SpecW == InitW /\ [][NextW]_vars

\* C17: get_chord_variations(chord, k), k >= 0: the first element is the
\* original chord; for a quality that is a key of the substitution table the
\* result has exactly 1 + min(k, |candidates|) elements, the further ones being
\* root + q for pairwise distinct q of that quality's candidate list; for any
\* other quality and for the empty chord the result is [chord].
C17_ChordVariationsShape ==
    var_op = "get_chord_variations" =>
        LET parsed == variations_parse_chord(var_chord)
            root == parsed[1]
            quality == parsed[2]
        IN  /\ variations[1] = var_chord
            /\ IF var_chord # <<>> /\ quality \in VariationQualities
               THEN LET candidates == CHORD_VARIATIONS(quality)
                    IN  /\ Len(variations) = 1 + Min(num_variations, Len(candidates))
                        /\ \A i \in 2..Len(variations) :
                              \E j \in 1..Len(candidates) : variations[i] = root \o candidates[j]
                        /\ \A i, j \in 2..Len(variations) :
                              i # j => variations[i] # variations[j]
               ELSE variations = <<var_chord>>

\* three distinct minor substitutions on a flat root
C17_Witness ==
    /\ var_op = "get_chord_variations"
    /\ var_chord = <<"B", "b", "m">>
    /\ num_variations = 3
    /\ Len(variations) = 4
    /\ variations[2] = <<"B", "b", "m", "s", "u", "s", "4">>

DiffersOnlyAt(varied, prog, k) ==
    /\ Len(varied) = Len(prog)
    /\ \A i \in 1..Len(prog) : i # k => varied[i] = prog[i]

\* C18: create_progression_variations returns at most three variants for every
\* progression, probability and outcome of the random draws: none equals the
\* input, they are pairwise distinct, the empty progression yields none; the
\* variant of strategy 2 differs from the input at the first position only, the
\* variant of strategy 3 at the last position only.
C18_ProgressionVariationsDistinct ==
    var_op = "create_progression_variations" =>
        /\ Len(variations) <= 3
        /\ \A i \in 1..Len(variations) : variations[i] # var_progression
        /\ \A i, j \in 1..Len(variations) : i # j => variations[i] # variations[j]
        /\ var_progression = <<>> => variations = <<>>
        /\ \A i \in 1..Len(variations) :
              /\ strategy_of[i] = 2 => DiffersOnlyAt(variations[i], var_progression, 1)
              /\ strategy_of[i] = 3 =>
                    DiffersOnlyAt(variations[i], var_progression, Len(var_progression))

\* a two-chord progression for which each of the three strategies added a variant
C18_Witness ==
    /\ var_op = "create_progression_variations"
    /\ Len(var_progression) = 2
    /\ strategy_of = <<1, 2, 3>>

---------------------------------------------------------------------------
(* The generation loop seen through the ids it sampled *)

\* the sampled ids that are neither PAD nor END, in sampling order
NonStop(ids) == SelectSeq(ids, LAMBDA id : id # 0 /\ id # 2)

Decoded(ids) == [i \in 1..Len(ids) |-> DictGet(id_to_chord, ids[i], UNK_TOKEN)]

\* C19: at every step a sampled PAD (0) or END (2) halts generation at once,
\* nothing is appended and the model is not queried again; any other sampled id
\* is appended to the sequence and its decoded chord to the output.  So the
\* output is exactly the decoded non-stop ids in sampling order (no seed chord
\* among them), no chord in it is decoded from id 0 or 2, and
\* len(sequence) = len(initial sequence) + len(output) throughout.
C19_StopTokenTransition ==
    gen_pc \in {"loop", "done", "raised"} =>
        /\ queries = Len(sampled)
        /\ \A i \in 1..Len(sampled) :
              (sampled[i] = 0 \/ sampled[i] = 2) => (i = Len(sampled) /\ gen_pc = "done")
        /\ generated_chords = Decoded(NonStop(sampled))
        /\ current_sequence = initial_sequence(seed_chords) \o NonStop(sampled)
        /\ Len(current_sequence) = Len(initial_sequence(seed_chords)) + Len(generated_chords)
        /\ \A i \in 1..Len(generated_chords) :
              generated_chords[i] \notin {Decoded(<<0>>)[1], Decoded(<<2>>)[1]}

\* seeded generation that appended two chords and was then halted by PAD
C19_Witness ==
    /\ gen_pc = "done"
    /\ seed_chords # <<>>
    /\ Len(sampled) = 3
    /\ sampled[3] = 0
    /\ Len(generated_chords) = 2
    /\ num_chords = 3

\* C20: for every num_chords and every behaviour of the model generation ends
\* after at most num_chords steps and model queries with a list of at most
\* num_chords chords, of exactly num_chords chords when no stop token was
\* sampled, of none (and with no query) for num_chords <= 0; halting by stop
\* token and halting by the length bound are both normal returns.
C20_LengthBoundAndNormalReturn ==
    /\ gen_pc # "raised"
    /\ queries <= (IF num_chords > 0 THEN num_chords ELSE 0)
    /\ Len(generated_chords) <= (IF num_chords > 0 THEN num_chords ELSE 0)
    /\ (gen_pc = "done" /\ NonStop(sampled) = sampled /\ num_chords >= 0) =>
          Len(generated_chords) = num_chords

---------------------------------------------------------------------------
(* The generation loop: its initial state, its conditioning and the frame   *)
(* it hands to the model                                                    *)

\* generate_progression has set up its sequence and not yet entered the loop body
JustStarted == gen_pc = "loop" /\ queries = 0 /\ sampled = <<>>

\* C21: with a non-empty seed_chords the initial sequence is the list of the
\* seed chords' vocabulary ids in the same order, a seed chord absent from the
\* vocabulary being id 0 (the PAD id, not the UNK id); with no seed chords it is
\* [START id], that is [1]; the output list starts empty in both cases.
C21_InitialSequence ==
    JustStarted =>
        /\ generated_chords = <<>>
        /\ seed_chords = <<>> =>
              /\ current_sequence = <<chord_to_id[START_TOKEN]>>
              /\ current_sequence = <<1>>
        /\ seed_chords # <<>> =>
              /\ Len(current_sequence) = Len(seed_chords)
              /\ \A i \in 1..Len(seed_chords) :
                    IF seed_chords[i] \in DOMAIN chord_to_id
                    THEN current_sequence[i] = chord_to_id[seed_chords[i]]
                    ELSE /\ current_sequence[i] = 0
                         /\ current_sequence[i] = chord_to_id[PAD_TOKEN]
                         /\ current_sequence[i] # chord_to_id[UNK_TOKEN]

\* a known seed chord followed by one the vocabulary does not hold
C21_Witness ==
    /\ JustStarted
    /\ seed_chords = << <<"C">>, <<"H">> >>
    /\ current_sequence = <<5, 0>>
    /\ generated_chords = <<>>

\* C22: with a model whose distribution is concentrated on one known chord id c
\* at every position, temperature 1.0, num_chords 4 and no seed, the id drawn by
\* _sample_with_temperature is c: generate_progression returns the symbol of c
\* four times when c is not PAD or END, and the empty list when it is.
C22_ConcentratedScenario ==
    (predictor.concentrated /\ temperature = 1000 /\ num_chords = 4 /\ seed_chords = <<>>) =>
        /\ \A i \in 1..Len(sampled) : sampled[i] = predictor.peak
        /\ gen_pc = "done" =>
              generated_chords =
                  IF predictor.peak = 0 \/ predictor.peak = 2
                  THEN <<>>
                  ELSE [i \in 1..4 |-> id_to_chord[predictor.peak]]

(***************************************************************************)
(* Metadata values the vocabulary has never seen.                          *)
(***************************************************************************)
\* id 0 of a non-empty axis vocabulary belongs to its lexicographically first value
FirstValueHasIdZero(vocab) ==
    \A v \in DOMAIN vocab :
        (vocab[v] = 0) <=> (\A w \in DOMAIN vocab : ~StrLess(w, v))

\* both the value absent and the axis's first known value are encoded as 0
UnseenIsZero(vocab, value, id) == value \notin DOMAIN vocab => id = 0

\* C23: a genre, mood, key or scale type absent from its vocabulary is encoded
\* as id 0 by preprocess_dataset and by generate_progression, and id 0 is also
\* the id of the lexicographically first known value of the axis
C23_UnseenMetadataIsZero ==
    /\ built =>
          /\ FirstValueHasIdZero(genre_vocab)
          /\ FirstValueHasIdZero(mood_vocab)
          /\ FirstValueHasIdZero(key_vocab)
          /\ FirstValueHasIdZero(scale_type_vocab)
    /\ codec.op = "preprocess_dataset" =>
          /\ Len(codec.val) = Len(codec.arg)
          /\ \A i \in 1..Len(codec.arg) :
                /\ UnseenIsZero(genre_vocab, codec.arg[i].genre, codec.val[i].genre_encoded)
                /\ UnseenIsZero(mood_vocab, codec.arg[i].mood, codec.val[i].mood_encoded)
                /\ UnseenIsZero(key_vocab, codec.arg[i].key, codec.val[i].key_encoded)
                /\ UnseenIsZero(scale_type_vocab, codec.arg[i].scale_type,
                                codec.val[i].scale_type_encoded)
    /\ gen_pc # "idle" =>
          /\ UnseenIsZero(genre_vocab, request.genre, cond_ids.genre_id)
          /\ UnseenIsZero(mood_vocab, request.mood, cond_ids.mood_id)
          /\ UnseenIsZero(key_vocab, request.key, cond_ids.key_id)
          /\ UnseenIsZero(scale_type_vocab, request.scale_type, cond_ids.scale_id)

\* a two-genre vocabulary, a preprocessed record of an unseen genre encoded
\* as 0, and a request whose unseen mood is passed as 0 next to a known genre
\* with id 1
C23_Witness ==
    /\ Cardinality(DOMAIN genre_vocab) = 2
    /\ codec.op = "preprocess_dataset"
    /\ \E i \in 1..Len(codec.arg) :
          /\ codec.arg[i].genre \notin DOMAIN genre_vocab
          /\ codec.val[i].genre_encoded = 0
    /\ gen_pc = "done"
    /\ request.mood \notin DOMAIN mood_vocab
    /\ cond_ids.mood_id = 0
    /\ cond_ids.genre_id = 1

(***************************************************************************)
(* What the model is shown and where its answer is read.                   *)
(***************************************************************************)
\* C24: at every step at which the model is queried, the frame passed is the
\* current sequence right-padded with PAD (0) to exactly max_sequence_length
\* entries, and the distribution sampled is the one at frame index
\* min(len(sequence) - 1, max_sequence_length - 1)
C24_ReadPosition ==
    [][queries' = queries + 1 =>
          /\ Len(frame') = max_sequence_length
          /\ \A i \in 1..max_sequence_length :
                frame'[i] = IF i <= Len(current_sequence) THEN current_sequence[i] ELSE 0
          /\ current_pos' = Min(Len(current_sequence) - 1, max_sequence_length - 1)]_vars

\* the second query of a generation without seed: START and one sampled chord
\* fill positions 0 and 1, the rest is PAD and position 1 is read
C24_Witness ==
    /\ queries = 2
    /\ seed_chords = <<>>
    /\ current_pos = 1
    /\ frame[1] = 1
    /\ frame[2] = sampled[1]
    /\ \A i \in 3..max_sequence_length : frame[i] = 0

\* C25: the genre, mood, key and scale-type ids are computed once before the
\* loop and the same four values are passed to the model at every step; only
\* the chord frame changes between steps
C25_ConditioningFixed ==
    [][/\ gen_pc # "idle" => cond_ids' = cond_ids
       /\ queries' = queries + 1 =>
             /\ passed_ids'.genre_id = cond_ids.genre_id
             /\ passed_ids'.mood_id = cond_ids.mood_id
             /\ passed_ids'.key_id = cond_ids.key_id
             /\ passed_ids'.scale_id = cond_ids.scale_id
             /\ queries >= 1 => (passed_ids' = passed_ids /\ frame' # frame)]_vars

\* the third query of a request with a known genre and an unseen mood: the
\* ids computed at the start are the ones passed
C25_Witness ==
    /\ queries = 3
    /\ request = RequestMixed
    /\ cond_ids = [genre_id |-> 1, mood_id |-> 0, key_id |-> 1, scale_id |-> 0]
    /\ passed_ids = cond_ids

(***************************************************************************)
(* Length and order under the transformation engines.                      *)
(***************************************************************************)
EndsWith(chord, quality) ==
    /\ Len(chord) >= Len(quality)
    /\ SubSeq(chord, Len(chord) - Len(quality) + 1, Len(chord)) = quality

\* chord is the root of original followed by a tabulated substitute of its quality
IsSubstituteOf(chord, original) ==
    LET parsed == variations_parse_chord(original)
        candidates == available_variations(original)
    IN  \E j \in 1..Len(candidates) : chord = parsed[1] \o candidates[j]

\* C26: transpose_progression(p, s) has the length of p and its i-th chord is
\* transpose_chord(p[i], s), which keeps the quality of p[i]; every variant of
\* create_progression_variations(p, prob) has the length of p and its i-th
\* chord has the root of p[i] and is p[i] or that root with a tabulated
\* substitute of p[i]'s quality; neither call modifies the list it is given
C26_LengthAndOrderPreserved ==
    /\ res.op = "transpose_progression" =>
          /\ ~res.raised
          /\ Len(res.val) = Len(res.arg)
          /\ \A i \in 1..Len(res.arg) :
                /\ res.val[i] = transpose_chord(res.arg[i], semitones)
                /\ parse_chord(res.arg[i])[2] # None =>
                      EndsWith(res.val[i], parse_chord(res.arg[i])[2])
          /\ var_progression_after = res.arg
    /\ var_op = "create_progression_variations" =>
          /\ \A k \in 1..Len(variations) :
                /\ Len(variations[k]) = Len(var_progression)
                /\ \A i \in 1..Len(var_progression) :
                      /\ variations_parse_chord(variations[k][i])[1] =
                            variations_parse_chord(var_progression[i])[1]
                      /\ \/ variations[k][i] = var_progression[i]
                         \/ IsSubstituteOf(variations[k][i], var_progression[i])
          /\ var_progression_after = var_progression

\* a two-chord progression with a flat root and a chord without a root,
\* shifted by 5: Bbm7 becomes D#m7 and the empty chord stays in its place
C26_Witness ==
    /\ res.op = "transpose_progression"
    /\ semitones = 5
    /\ res.arg = << <<"B", "b", "m", "7">>, <<>> >>
    /\ res.val = << <<"D", "#", "m", "7">>, <<>> >>

(***************************************************************************)
(* Decoding ids of any origin.                                             *)
(***************************************************************************)
\* C27: for every list of integer ids, those outside 0..vocab_size-1 included,
\* decode_progression returns a list of the same length whose i-th element is
\* id_to_chord[id_i] when that id has an inverse mapping and '<UNK>'
\* otherwise; it never raises
C27_DecodeTotal ==
    codec.op = "decode_progression" =>
        /\ Len(codec.val) = Len(codec.arg)
        /\ \A i \in 1..Len(codec.arg) :
              /\ codec.arg[i] \in DOMAIN id_to_chord => codec.val[i] = id_to_chord[codec.arg[i]]
              /\ codec.arg[i] \notin DOMAIN id_to_chord => codec.val[i] = UNK_TOKEN

\* ids of a model's output are decoded: a corpus chord's id, an id past the
\* vocabulary and a negative id in one list
C27_Witness ==
    /\ codec.op = "decode_progression"
    /\ ~codec.of_encoding
    /\ codec.arg = <<7, 4, -1>>
    /\ vocab_size = 6
    /\ codec.val = <<UNK_TOKEN, <<"A", "m">>, UNK_TOKEN>>

(***************************************************************************)
(* What split_dataset leaves of the list it was given.                     *)
(***************************************************************************)
\* C28: after split_dataset returns, the input sample list has the same
\* elements in the same order as before the call, and the samples placed in
\* train, val and test are the records of the input
C28_SplitMutatesNothing ==
    [][split_calls' = split_calls + 1 =>
          /\ data' = data
          /\ ~split_res'.raised =>
                IsPermutation(split_res'.train \o split_res'.val \o split_res'.test, data)]_vars

\* three different samples came back in another order than they were given
C28_Witness ==
    /\ split_calls = 1
    /\ split_res.called /\ ~split_res.raised
    /\ data = <<1, 2, 3>>
    /\ split_res.train \o split_res.val \o split_res.test \notin {<<>>, data}

(***************************************************************************)
(* The fan-out of augment_with_transposition.                              *)
(***************************************************************************)
CopiedFields == {"roman_numerals", "genre", "mood", "scale_type", "song_name"}

\* the k-th record written is the one for base (k - 1) div 12 and semitones
\* (k - 1) mod 12, with id k, its source and lineage, and the base's other fields
FanOutRecordOk(k) ==
    LET rec == augmented_progressions[k]
        base == base_progressions[((k - 1) \div 12) + 1]
        s == (k - 1) % 12
    IN  /\ rec.id = k
        /\ rec.source = IF s = 0 THEN "original" ELSE "transposed"
        /\ s > 0 => (rec.transposed_semitones = s /\ rec.original_key = base.key)
        /\ \A f \in CopiedFields : rec[f] = base[f]

\* C29: for N base progressions the output holds exactly 12*N records, in base
\* order and within a base in semitone order 0..11, with ids exactly 1..12*N;
\* per base one record has source 'original' (semitones 0) and the other
\* eleven have source 'transposed' with transposed_semitones 1..11 and
\* original_key the base's key; roman_numerals, genre, mood, scale_type and
\* song_name equal the base's, and the base records are not modified
C29_TranspositionFanOut ==
    [][/\ base_progressions' = base_progressions
       /\ \A k \in 1..Len(augmented_progressions') : FanOutRecordOk(k)'
       /\ aug_pc' = "done" => Len(augmented_progressions') = 12 * Len(base_progressions')]_vars

\* two bases, the second in a flat minor key: all 24 records are written
C29_Witness ==
    /\ aug_pc = "done"
    /\ Len(base_progressions) = 2
    /\ base_progressions[2].key = <<"E", "b", "m">>
    /\ Len(augmented_progressions) = 24
    /\ augmented_progressions[24].id = 24
    /\ augmented_progressions[24].transposed_semitones = 11
    /\ augmented_progressions[24].original_key = <<"E", "b", "m">>
    /\ augmented_progressions[13].source = "original"

(***************************************************************************)
(* Lineage and ids of the records augment_with_variations appends.         *)
(***************************************************************************)
SetFields == {"progression", "id", "source", "original_id"}

\* the record at position N + k was built from the base at derived_from[k]
VariationRecordOk(k) ==
    LET N == Len(base_progressions)
        rec == all_progressions[N + k]
        base == base_progressions[derived_from[k]]
    IN  /\ rec.id = N + k
        /\ rec.source = "variation"
        /\ rec.original_id = base.id
        /\ DOMAIN rec = DOMAIN base \cup {"original_id"}
        /\ \A f \in DOMAIN base \ SetFields : rec[f] = base[f]

\* C30: the output begins with the N input records unchanged and in order;
\* per input record at most variations_per_progression, and at most 3,
\* variation records are appended, each with source 'variation', original_id
\* the id of the record it was derived from and the other fields copied; new
\* ids are N+1, N+2, ... in creation order, so every id is unique when the
\* input ids are 1..N; metadata total_progressions = N + variations_added
C30_VariationLineage ==
    aug_pc \in {"loop", "done"} =>
        LET N == Len(base_progressions)
        IN  /\ Len(all_progressions) = N + Len(derived_from)
            /\ SubSeq(all_progressions, 1, N) = base_progressions
            /\ \A k \in 1..Len(derived_from) : VariationRecordOk(k)
            /\ \A j, k \in 1..Len(derived_from) : j <= k => derived_from[j] <= derived_from[k]
            /\ \A b \in 1..N :
                  Cardinality({k \in 1..Len(derived_from) : derived_from[k] = b})
                      <= Min(variations_per_progression, 3)
            /\ (\A i \in 1..N : base_progressions[i].id = i) =>
                  \A j, k \in 1..Len(all_progressions) :
                      j # k => all_progressions[j].id # all_progressions[k].id
            /\ aug_pc = "done" =>
                  /\ final_metadata.variations_added = Len(derived_from)
                  /\ final_metadata.total_progressions = N + final_metadata.variations_added

\* two records with ids 1 and 2, two variations allowed each: the dataset
\* written holds the two records, then one variation of the first and two of
\* the second, with ids 3, 4 and 5
C30_Witness ==
    /\ aug_pc = "done"
    /\ variations_per_progression = 2
    /\ Len(base_progressions) = 2
    /\ base_progressions[1].id = 1
    /\ derived_from = <<1, 2, 2>>
    /\ all_progressions[5].id = 5
    /\ all_progressions[5].original_id = 2
    /\ all_progressions[5].transposed_semitones = 4
    /\ final_metadata.total_progressions = 5

====
